---- MODULE Spec2Model ----
(***************************************************************************)
(* Model of the support-tracker query job: the job registry and            *)
(* runQueryJob (backend query routes), the Stack Overflow / Internal       *)
(* Stack Overflow / GitHub reconcilers (process) and the Azure DevOps      *)
(* calls they inherit from DevOpsService.                                  *)
(*                                                                         *)
(* One job runs on the Node event loop.  Every `await` of the source is a  *)
(* yield point: pc values listed in YieldPoints are the places where the   *)
(* job is suspended and another handler (a cancel request) can run.  All   *)
(* other pc values are synchronous continuations: no handler interleaves.  *)
(***************************************************************************)
EXTENDS Integers, Sequences, FiniteSets, TLC

(* ------------------------------ bounds -------------------------------- *)
MaxTags == 1
MaxRepos == 2
MaxFailures == 1
MaxItems == 3
MaxDays == 2
MaxEdges == 2
MaxEvents == 2

(* --------------------------- program constants ------------------------ *)
TitleLimit == 255
SoTestQuestionId == 78853530
IsoTestQuestionId == 419168
DefaultStartHour == 10
DefaultNumberOfDays == 1

NULL == "null"
JobId == "job-1"
\* variant of the order of the source blocks with GitHub first
SourceOrder_GitHubFirst == <<"github", "stackOverflow", "internalStackOverflow">>
SourceOrder == <<"stackOverflow", "internalStackOverflow", "github">>

(* Titles are sequences of UTF-16 code units (abstracted to small numbers). *)
T1 == <<1>>
T2 == <<2>>
SoTestTitle == <<3>>
IsoTestTitle == <<4>>

TagNames == {"botframework", "bot-framework"}
TagLists == UNION {[1..n -> TagNames] : n \in 0..MaxTags}

(* Upstream GitHub search edges: node.number, node.title, node.url. *)
ItemA == [number |-> 1, title |-> T1, url |-> "u1"]
ItemB == [number |-> 2, title |-> T2, url |-> "u2"]
RepoPayloads == {<<>>, <<ItemA>>, <<ItemB>>}
RepoLists == UNION {[1..n -> RepoPayloads] : n \in 0..MaxRepos}
GitHubTestData == {<<>>, <<ItemA>>, <<ItemA, ItemB>>}
RepoNames == <<"repo1", "repo2", "repo3", "repo4">>

(* Work items already in the tracker when the job starts. *)
WorkItem(wid, issueId, title) == [id |-> wid, issueId |-> issueId, title |-> title]
TrackerChoices ==
  { <<>>,
    <<WorkItem(1, 1, T1)>>,
    <<WorkItem(1, 1, T2)>>,
    <<WorkItem(1, SoTestQuestionId, SoTestTitle)>>,
    <<WorkItem(1, SoTestQuestionId, T1), WorkItem(2, 2, T2)>> }

VARIABLES
  jobs,        \* the jobs Map: id -> job record
  pc,          \* position of runQueryJob / process for the job
  run,         \* locals of runQueryJob
  svc,         \* locals of the running reconciler's process()
  ret,         \* value a reconciler's process() returned
  settings,    \* settings document (settingsDb)
  issuesDb,    \* the persisted run snapshot (issuesDb, index.*)
  tracker,     \* Azure DevOps work items
  failures,    \* upstream failures injected so far
  calls,       \* history: number of outbound requests of each kind
  createAfterAbort, \* history: a create request was issued after abort()
  hist,        \* history: statuses the job has had, in order
  procLog,     \* history: validation / process() start and return events
  cancelRet,   \* history: what the last cancelJob call returned
  httpStatus,  \* history: status of the last HTTP answer
  route,       \* history: the route that gave the last HTTP answer
  cancelAt,    \* history: where runQueryJob was when the token was signalled
  first        \* history: what the job that ran before this one left, if any

vars == <<jobs, pc, run, svc, ret, settings, issuesDb, tracker, failures,
          calls, createAfterAbort, hist, procLog, cancelRet, httpStatus,
          route, cancelAt, first>>

(* --------------------------- issuesModel ------------------------------ *)
EmptySection ==
  [found |-> [issues |-> <<>>, count |-> 0],
   devOps |-> <<>>,
   newIssues |-> [issues |-> <<>>, count |-> 0]]

issuesModel ==
  [stackOverflow |-> EmptySection,
   internalStackOverflow |-> EmptySection,
   github |-> EmptySection]

(* ----------------------------- helpers -------------------------------- *)
Min(a, b) == IF a < b THEN a ELSE b

\* utils.removeDuplicates(items, keyFn): first occurrence of each key, in
\* order; key is the field keyFn reads
RECURSIVE removeDuplicates(_, _, _)
removeDuplicates(items, key, seen) ==
  IF items = <<>> THEN <<>>
  ELSE IF Head(items)[key] \in seen
       THEN removeDuplicates(Tail(items), key, seen)
       ELSE <<Head(items)>> \o
            removeDuplicates(Tail(items), key, seen \cup {Head(items)[key]})

\* title.slice(0, 255)
SliceTitle(t) == SubSeq(t, 1, Min(Len(t), TitleLimit))

\* the key functions: ({ question_id }) => question_id, ({ node: { url } }) => url
QuestionKey == "question_id"
\* variant keyed by the issue number
EdgeUrl_Number == "number"
EdgeUrl == "url"

\* StackOverflowService.process: uniqueIssues.map(...)
NormalizeQuestions(items) ==
  LET u == removeDuplicates(items, QuestionKey, {})
  IN [n \in 1..Len(u) |->
        [id |-> u[n].question_id, title |-> SliceTitle(u[n].title),
         url |-> "q", status |-> ""]]

\* GitHubService.process: uniqueIssues.map(...)
NormalizeEdges(items) ==
  LET u == removeDuplicates(items, EdgeUrl, {})
  IN [n \in 1..Len(u) |->
        [id |-> u[n].number, title |-> SliceTitle(u[n].title),
         url |-> u[n].url, status |-> ""]]

\* getTestData of StackOverflowService / InternalStackOverflowService
getTestData(source) ==
  IF source = "internalStackOverflow"
  THEN <<[question_id |-> IsoTestQuestionId, title |-> IsoTestTitle]>>
  ELSE <<[question_id |-> SoTestQuestionId, title |-> SoTestTitle]>>

\* the snapshot key a Q&A reconciler writes: tags.includes('bot-framework')
SnapshotKey(source, units) ==
  IF source = "github" THEN "github"
  ELSE IF \E n \in DOMAIN units : units[n] = "bot-framework"
       THEN "internalStackOverflow" ELSE "stackOverflow"

\* the work items a WIQL search by Custom.IssueID returns
SearchWorkItems(id) == SelectSeq(tracker, LAMBDA w : w.issueId = id)

\* errors as values: name is what errorHandler left in error.name,
\* sourceService is error._sourceService; upstream is a history field, the
\* service whose request actually failed
ErrorValue(name, sourceService, message, upstream) ==
  [kind |-> "error", name |-> name, sourceService |-> sourceService,
   message |-> message, upstream |-> upstream]
Report(st, message) ==
  [kind |-> "report", status |-> st, message |-> message]
\* ret while no process() has returned a value to runQueryJob
NoReturn == [kind |-> "none"]

Job == jobs[JobId]
JobExists == JobId \in DOMAIN jobs
aborted == JobExists /\ Job.abortCount > 0

\* job.result before the job ends (null); issues is meaningful only when
\* hasIssues (results.issues is assigned on the normal path only)
NoResult ==
  [isNull |-> TRUE, endTime |-> FALSE, services |-> <<>>,
   serviceErrors |-> <<>>, hasIssues |-> FALSE, issues |-> issuesModel]

NoSvc ==
  [source |-> NULL, units |-> <<>>, unit |-> 0, items |-> <<>>,
   issues |-> <<>>, unassignedIssues |-> <<>>, matches |-> <<>>,
   i |-> 0, workItems |-> <<>>, j |-> 0]

NoRun ==
  [enabledServices |-> {}, pushToDevOps |-> TRUE, useTestData |-> FALSE,
   validate |-> FALSE, total |-> 0, adoOrg |-> TRUE, adoPat |-> TRUE,
   validation |-> "none", thrown |-> NULL,
   serviceErrors |-> <<>>, services |-> <<>>, serviceIndex |-> 0,
   cursor |-> 0]

\* the places where runQueryJob is suspended in an await
YieldPoints ==
  {"readSettings", "credRead", "validating", "ghSettings", "sleep",
   "getSettings",
   "fetching", "sleep429", "persistFound", "searchPrep", "searching",
   "getPrep", "getting", "getConfig", "persistDevOps", "persistNew",
   "createPrep", "creating", "finalize"}

Init ==
  /\ jobs = <<>>
  /\ pc = "idle"
  /\ run = NoRun
  /\ svc = NoSvc
  /\ ret = NoReturn
  /\ settings \in [useTestData : BOOLEAN]
  /\ issuesDb = issuesModel
  /\ tracker \in TrackerChoices
  /\ failures = 0
  /\ calls = [validate |-> 0, fetch |-> 0, search |-> 0, get |-> 0, create |-> 0]
  /\ createAfterAbort = FALSE
  /\ hist = <<>>
  /\ procLog = <<>>
  /\ cancelRet = "none"
  /\ httpStatus = 0
  /\ route = "none"
  /\ cancelAt = "none"
  /\ first = <<>>


(* ------------------------- job registry ------------------------------- *)
\* updateJob(id, updates): Object.assign on the stored job
updateJobIn(J, updates) ==
  [J EXCEPT ![JobId] =
     [f \in DOMAIN @ |-> IF f \in DOMAIN updates THEN updates[f] ELSE @[f]]]

updateJob(updates) == updateJobIn(jobs, updates)

Progress(current, total, service) ==
  [current |-> current, total |-> total, currentService |-> service]

\* history of the statuses a job goes through
TrackStatus(newJobs) ==
  hist' = IF JobId \in DOMAIN newJobs /\
             (hist = <<>> \/ hist[Len(hist)] # newJobs[JobId].status)
          THEN Append(hist, newJobs[JobId].status) ELSE hist

\* cancelRet, httpStatus and route hold the answer of the request that was
\* the last step taken; a step of runQueryJob clears them and signals nothing
NoAnswer ==
  /\ cancelRet' = "none" /\ httpStatus' = 0 /\ route' = "none"
  /\ cancelAt' = cancelAt
  /\ first' = first

Track(newJobs) == TrackStatus(newJobs) /\ NoAnswer

\* createJob(id, abortController)
createJob ==
  [id \in {JobId} |->
     [status |-> "running", result |-> NoResult, error |-> NULL,
      progress |-> Progress(0, 0, ""), abortCount |-> 0]]

\* variant of cancelJob that aborts but leaves the status 'running'
cancelJobEffect_NoStatusUpdate ==
  IF JobExists /\ Job.status = "running"
  THEN [jobs EXCEPT ![JobId].abortCount = @ + 1]
  ELSE jobs

\* variant of cancelJob without the `job.status === 'running'` test
cancelJobEffect_AnyStatus ==
  IF JobExists
  THEN [jobs EXCEPT ![JobId].abortCount = @ + 1, ![JobId].status = "cancelled"]
  ELSE jobs

\* cancelJob(id): abort the token and mark the job cancelled iff running
cancelJobEffect ==
  IF JobExists /\ Job.status = "running"
  THEN [jobs EXCEPT ![JobId].abortCount = @ + 1, ![JobId].status = "cancelled"]
  ELSE jobs

cancelJobResult ==
  IF JobExists /\ Job.status = "running" THEN "true" ELSE "false"

Interruptible == pc \in YieldPoints \cup {"idle", "done"}

\* where the job was when cancelJob signalled its token
Signalled ==
  cancelAt' = IF JobExists /\ Job.status = "running" THEN pc ELSE cancelAt

\* a direct call of the exported cancelJob
cancelJob ==
  /\ Interruptible
  /\ jobs' = cancelJobEffect
  /\ cancelRet' = cancelJobResult
  /\ httpStatus' = 0
  /\ route' = "none"
  /\ Signalled
  /\ TrackStatus(jobs')
  /\ UNCHANGED <<pc, run, svc, ret, settings, issuesDb, tracker, failures,
                 calls, createAfterAbort, procLog, first>>

\* variant of the cancel route that answers success for any known job
CancelAnswer_NoTerminalCheck == IF ~JobExists THEN 404 ELSE 200

\* POST /:jobId/cancel: the status of the answer
CancelAnswer ==
  IF ~JobExists THEN 404
  ELSE IF Job.status # "running" THEN 400 ELSE 200

\* POST /:jobId/cancel
PostCancel ==
  /\ Interruptible
  /\ httpStatus' = CancelAnswer
  /\ route' = "cancel"
  /\ IF CancelAnswer = 200
     THEN /\ jobs' = cancelJobEffect
          /\ cancelRet' = cancelJobResult
          /\ Signalled
     ELSE /\ jobs' = jobs
          /\ cancelRet' = "none"
          /\ cancelAt' = cancelAt
  /\ TrackStatus(jobs')
  /\ UNCHANGED <<pc, run, svc, ret, settings, issuesDb, tracker, failures,
                 calls, createAfterAbort, procLog, first>>

\* GET /:jobId: 404 for an unknown id, else the job's status, result, error
\* and progress; polled before the job is created and after it has ended
GetJob ==
  /\ pc \in {"idle", "done"}
  /\ httpStatus' = IF JobExists THEN 200 ELSE 404
  /\ route' = "get"
  /\ cancelRet' = "none"
  /\ UNCHANGED <<jobs, pc, run, svc, ret, settings, issuesDb, tracker,
                 failures, calls, createAfterAbort, hist, procLog, cancelAt,
                 first>>

(* --------------------------- runQueryJob ------------------------------ *)
ServiceLabel(source) ==
  CASE source = "stackOverflow" -> "Stack Overflow"
    [] source = "internalStackOverflow" -> "Internal Stack Overflow"
    [] OTHER -> "GitHub"

PushParam(p) == IF p = "undefined" THEN TRUE ELSE p = "true"

\* POST /: createJob, then runQueryJob up to its first await
StartJob(en, push) ==
  /\ pc = "idle"
  /\ ~JobExists
  /\ jobs' = createJob
  /\ run' = [NoRun EXCEPT !.enabledServices = en,
                          !.pushToDevOps = PushParam(push)]
  /\ pc' = "readSettings"
  /\ Track(jobs')
  /\ UNCHANGED <<svc, ret, settings, issuesDb, tracker, failures, calls,
                 createAfterAbort, procLog>>

\* the messages of the exceptions a store operation throws
ExceptionMessages == {"store failure", ""}

\* variant of the error text that stores the message as it is
ErrorText_Raw(message) == message

\* error.message || 'Unknown error'
ErrorText(message) == IF message = "" THEN "Unknown error" ELSE message

\* variant of the catch block that records the error but not the status
CatchError_KeepsRunning(message) ==
  /\ jobs' = updateJob([error |-> ErrorText(message)])
  /\ run' = [run EXCEPT !.thrown = message]
  /\ pc' = "done"

\* catch (error): any exception that is not an AbortError
CatchError(message) ==
  /\ jobs' = updateJob([status |-> "error", error |-> ErrorText(message)])
  /\ run' = [run EXCEPT !.thrown = message]
  /\ pc' = "done"

\* variant that validates even when no source is enabled
NeedsValidation_NoSourceTest(useTestData, total, pushToDevOps) ==
  ~useTestData /\ pushToDevOps

\* if (!useTestData && servicesToRun.length > 0 && pushToDevOps)
NeedsValidation(useTestData, total, pushToDevOps) ==
  ~useTestData /\ total > 0 /\ pushToDevOps

\* variant of the store's write that leaves the stored document as it is
issuesDb_write_Ignored(stored, document) == stored

\* issuesDb.write(document): the stored document is replaced
issuesDb_write(stored, document) == document

\* settingsDb.read ... issuesDb.write(issuesModel) ... updateJob(progress)
ReadSettings ==
  /\ pc = "readSettings"
  /\ LET total == Cardinality(run.enabledServices)
         validate == NeedsValidation(settings.useTestData, total,
                                     run.pushToDevOps)
     IN /\ run' = [run EXCEPT !.useTestData = settings.useTestData,
                              !.validate = validate, !.total = total,
                              !.cursor = 1]
        /\ issuesDb' = issuesDb_write(issuesDb, issuesModel)
        /\ jobs' = updateJob([progress |->
                     Progress(0, total,
                       IF validate THEN "Validating Azure DevOps credentials"
                       ELSE "")])
        /\ pc' = IF validate THEN "credRead" ELSE "gate"
  /\ Track(jobs')
  /\ UNCHANGED <<svc, ret, settings, tracker, failures, calls,
                 createAfterAbort, procLog>>

\* one of the store operations at the start of runQueryJob throws
ReadSettingsThrows ==
  /\ pc = "readSettings"
  /\ failures < MaxFailures
  /\ failures' = failures + 1
  /\ \E message \in ExceptionMessages : CatchError(message)
  /\ Track(jobs')
  /\ UNCHANGED <<svc, ret, settings, issuesDb, tracker, calls,
                 createAfterAbort, procLog>>

\* the early return of runQueryJob when validation fails
FailValidation(r, message) ==
  LET errs == Append(run.serviceErrors,
                     [service |-> "Azure DevOps", message |-> message,
                      upstream |-> "Azure DevOps"])
  IN /\ run' = [r EXCEPT !.serviceErrors = errs]
     /\ jobs' = updateJob(
          [status |-> "completed",
           result |-> [isNull |-> FALSE, endTime |-> TRUE,
                       services |-> run.services, serviceErrors |-> errs,
                       hasIssues |-> FALSE, issues |-> issuesModel],
           progress |-> Progress(0, run.total, "Done")])
     /\ pc' = "done"
     /\ procLog' = Append(procLog, <<"validated", "failed">>)

\* getAzureDevOpsPat / getAzureDevOpsUsername, then validateCredentials' request.
\* adoOrg / adoPat: whether settings.azureDevOps.org and the keychain PAT are
\* set; this is where the job first looks at them.
CredentialsRead ==
  /\ pc = "credRead"
  /\ \E adoOrg \in BOOLEAN, adoPat \in BOOLEAN :
       IF ~adoOrg \/ ~adoPat
       THEN /\ FailValidation([run EXCEPT !.adoOrg = adoOrg, !.adoPat = adoPat,
                                          !.validation = "missing"],
                              IF ~adoOrg THEN "Organization not configured"
                              ELSE "PAT not configured")
            /\ calls' = calls
       ELSE /\ calls' = [calls EXCEPT !.validate = @ + 1]
            /\ pc' = "validating"
            /\ UNCHANGED <<run, jobs, procLog>>
  /\ Track(jobs')
  /\ UNCHANGED <<svc, ret, settings, issuesDb, tracker, failures,
                 createAfterAbort>>

ValidationOutcomes == {"200", "401", "403", "404", "500", "ENOTFOUND"}

\* variant of validateCredentials that takes a 401 answer for a valid PAT
validateCredentials_Accepts401(outcome) ==
  IF outcome \in {"200", "401"} THEN [valid |-> TRUE, error |-> NULL]
  ELSE [valid |-> FALSE, error |-> "API error"]

\* DevOpsService.validateCredentials: the result for each transport outcome
validateCredentials(outcome) ==
  CASE outcome = "200" -> [valid |-> TRUE, error |-> NULL]
    [] outcome = "401" -> [valid |-> FALSE, error |-> "Invalid or expired PAT"]
    [] outcome = "403" -> [valid |-> FALSE, error |-> "PAT lacks required permissions"]
    [] outcome = "404" -> [valid |-> FALSE, error |-> "Organization not found"]
    [] outcome = "ENOTFOUND" ->
         [valid |-> FALSE, error |-> "Unable to connect to Azure DevOps"]
    [] outcome = "canceled" -> [valid |-> FALSE, error |-> "canceled"]
    [] OTHER -> [valid |-> FALSE, error |-> "API error"]

\* variant in which the create request is sent without the signal
CarriesSignal_NotCreate(request) == request # "create"

\* the axios config of every request holds `signal`: validateCredentials,
\* fetchStackOverflowIssues / fetchIssues, searchWorkItemByIssueId,
\* getWorkItemByUrl, addIssues
CarriesSignal(request) ==
  request \in {"validate", "fetch", "search", "get", "create"}

\* the validation request settles; an aborted signal rejects it as canceled
ValidateResponse ==
  /\ pc = "validating"
  /\ \E outcome \in IF aborted /\ CarriesSignal("validate")
                     THEN {"canceled"} ELSE ValidationOutcomes :
       LET validation == validateCredentials(outcome)
       IN IF ~validation.valid
          THEN FailValidation([run EXCEPT !.validation = outcome],
                              validation.error)
          ELSE /\ pc' = "gate"
               /\ run' = [run EXCEPT !.validation = outcome]
               /\ procLog' = Append(procLog, <<"validated", "ok">>)
               /\ jobs' = jobs
  /\ Track(jobs')
  /\ UNCHANGED <<svc, ret, settings, issuesDb, tracker, failures, calls,
                 createAfterAbort>>


(* ------------------- reconciler: control helpers ---------------------- *)
\* Each helper fixes pc', svc', ret' and jobs' for one way a synchronous
\* stretch of process() ends.  J is the jobs Map after the stretch.
IsQA(source) == source # "github"

\* process() throws the AbortError of checkAborted
ProcThrow(s, J) ==
  /\ pc' = "threw" /\ svc' = s /\ ret' = ret /\ jobs' = J

\* process() returns r (a report or an Error value)
ProcReturn(s, r, J) ==
  /\ pc' = "returned" /\ svc' = s /\ ret' = r /\ jobs' = J

Goto(s, p, J) ==
  /\ pc' = p /\ svc' = s /\ ret' = ret /\ jobs' = J

\* the class name errorHandler leaves in error.name for this reconciler
HandlerName(source) ==
  IF IsQA(source) THEN "StackOverflowService" ELSE "GitHubService"

\* top of the fetch loop: checkAborted, onProgress, getIssues up to its sleep
StartUnit(s, J) ==
  IF aborted THEN ProcThrow(s, J)
  ELSE Goto([s EXCEPT !.unit = @ + 1], "sleep",
            IF s.source = "github" /\ ~run.useTestData
            THEN updateJobIn(J, [progress |->
                   Progress(run.serviceIndex, run.total,
                            "GitHub/" \o RepoNames[s.unit + 1])])
            ELSE J)

\* after the fetch loop: nothing found, or normalize and persist found
AfterFetch(s, J) ==
  IF s.items = <<>>
  THEN ProcReturn(s, Report(204, IF IsQA(s.source) THEN "No new posts found."
                                 ELSE "No new issues found."), J)
  ELSE Goto([s EXCEPT !.issues = IF IsQA(s.source)
                                 THEN NormalizeQuestions(s.items)
                                 ELSE NormalizeEdges(s.items)],
            "persistFound", J)

UnitDone(s, J) ==
  IF s.unit < Len(s.units) THEN StartUnit(s, J) ELSE AfterFetch(s, J)

\* variant of the step after the diff that calls addIssues before the
\* newIssues updates
AfterDiff_CreatesFirst(s, J) ==
  IF s.unassignedIssues = <<>>
  THEN ProcReturn(s, Report(204, IF IsQA(s.source) THEN "No new posts to add"
                                 ELSE "No new issues to add"), J)
  ELSE IF aborted THEN ProcThrow(s, J)
       ELSE Goto([s EXCEPT !.i = 1], "createPrep", J)

\* after the diff step: nothing to add, or persist newIssues
AfterDiff(s, J) ==
  IF s.unassignedIssues = <<>>
  THEN ProcReturn(s, Report(204, IF IsQA(s.source) THEN "No new posts to add"
                                 ELSE "No new issues to add"), J)
  ELSE Goto(s, "persistNew", J)

\* after the lookup loop: persist devOps when there are matches
AfterLookup(s, J) ==
  IF s.matches = <<>> THEN AfterDiff(s, J) ELSE Goto(s, "persistDevOps", J)

\* top of the lookup loop: checkAborted, then searchWorkItemByIssueId
StartIssue(s, J) ==
  IF s.i < Len(s.issues)
  THEN IF aborted THEN ProcThrow(s, J)
       ELSE Goto([s EXCEPT !.i = @ + 1, !.workItems = <<>>, !.j = 0],
                 "searchPrep", J)
  ELSE AfterLookup([s EXCEPT !.i = 0, !.workItems = <<>>, !.j = 0], J)

\* top of the loop over an issue's work items: checkAborted, getWorkItemByUrl
StartWorkItem(s, J) ==
  IF s.j < Len(s.workItems)
  THEN IF aborted THEN ProcThrow(s, J)
       ELSE Goto([s EXCEPT !.j = @ + 1], "getPrep", J)
  ELSE StartIssue(s, J)

\* addIssues: top of the create loop: checkAborted, then getCredentials
StartCreate(s, J) ==
  IF s.i < Len(s.unassignedIssues)
  THEN IF aborted THEN ProcThrow(s, J)
       ELSE Goto([s EXCEPT !.i = @ + 1], "createPrep", J)
  ELSE ProcReturn(s, Report(200, "created"), J)


(* ----------------------- runQueryJob: the sources --------------------- *)
CanFail == failures < MaxFailures

\* variant of the source guard that gives up after the first service error
ShouldRun_StopsAfterError(source) ==
  source \in run.enabledServices /\ Job.status = "running" /\
  run.serviceErrors = <<>>

\* variant of the source guard without the job.status test
ShouldRun_IgnoresStatus(source) == source \in run.enabledServices

\* `if (enabledServices.X && job.status === 'running')`
ShouldRun(source) ==
  source \in run.enabledServices /\ Job.status = "running"

\* the guard above, then: start the next
\* source's process() (up to its first await), skip it, or go on to the end
GateWith(tagLists) ==
  /\ pc = "gate"
  /\ IF run.cursor > Len(SourceOrder)
     THEN /\ pc' = "finalize"
          /\ UNCHANGED <<run, svc, ret, jobs, procLog>>
     ELSE LET source == SourceOrder[run.cursor] IN
          IF ShouldRun(source)
          THEN \E units \in (IF IsQA(source) THEN tagLists ELSE {<<>>}) :
                 LET J == updateJob([progress |->
                            Progress(run.serviceIndex, run.total,
                                     IF run.useTestData THEN "Test Data"
                                     ELSE ServiceLabel(source))])
                     s0 == [NoSvc EXCEPT !.source = source, !.units = units]
                 IN /\ procLog' = Append(procLog, <<"start", source>>)
                    /\ run' = run
                    /\ IF IsQA(source) THEN UnitDone(s0, J)
                       ELSE Goto(s0, "ghSettings", J)
          ELSE /\ run' = [run EXCEPT !.cursor = @ + 1]
               /\ UNCHANGED <<pc, svc, ret, jobs, procLog>>
  /\ Track(jobs')
  /\ UNCHANGED <<settings, issuesDb, tracker, failures, calls,
                 createAfterAbort>>

Gate ==
  /\ pc = "gate"
  /\ GateWith(TagLists)

\* runQueryJob after `await process()`: record the result, serviceIndex++
RecordResult ==
  /\ pc = "returned"
  /\ LET source == svc.source
         marker == [kind |-> "marker", status |-> "error",
                    message |-> ret.message]
         entry(label) == [service |-> label, message |-> ret.message,
                          upstream |-> ret.upstream]
         put(v) == (source :> v) @@ run.services
     IN run' =
          [run EXCEPT
             !.services =
               IF ret.kind # "error" THEN put(ret)
               ELSE IF source = "github" /\ ret.sourceService = "Azure DevOps"
                    THEN @ ELSE put(marker),
             !.serviceErrors =
               IF ret.kind # "error" THEN @
               ELSE IF source = "github" /\ ret.sourceService = "Azure DevOps"
                    THEN Append(@, entry("Azure DevOps"))
                    ELSE Append(@, entry(ServiceLabel(source))),
             !.serviceIndex = @ + 1,
             !.cursor = @ + 1]
  /\ procLog' = Append(procLog,
       <<IF ret.kind = "error" THEN "returnError" ELSE "return", svc.source>>)
  /\ pc' = "gate"
  /\ svc' = NoSvc
  /\ ret' = NoReturn
  /\ NoAnswer
  /\ UNCHANGED <<jobs, hist, settings, issuesDb, tracker, failures, calls,
                 createAfterAbort>>

\* catch (error) with error.name === 'AbortError'
CatchAbort ==
  /\ pc = "threw"
  /\ jobs' = updateJob([status |-> "cancelled", error |-> "Query was cancelled"])
  /\ procLog' = Append(procLog, <<"abort", svc.source>>)
  /\ pc' = "done"
  /\ svc' = NoSvc
  /\ Track(jobs')
  /\ UNCHANGED <<run, ret, settings, issuesDb, tracker, failures, calls,
                 createAfterAbort>>

\* variant of the final progress that copies the one of the validation path
DoneProgress_Zero == Progress(0, run.total, "Done")

\* the progress of a job that ran to the end
DoneProgress == Progress(run.total, run.total, "Done")

\* issuesDb.update('index.endTime'), issuesDb.read(), updateJob(completed)
Finalize ==
  /\ pc = "finalize"
  /\ jobs' = updateJob(
       [status |-> "completed",
        result |-> [isNull |-> FALSE, endTime |-> TRUE,
                    services |-> run.services,
                    serviceErrors |-> run.serviceErrors,
                    hasIssues |-> TRUE, issues |-> issuesDb],
        progress |-> DoneProgress])
  /\ pc' = "done"
  /\ Track(jobs')
  /\ UNCHANGED <<run, svc, ret, settings, issuesDb, tracker, failures, calls,
                 createAfterAbort, procLog>>

\* one of the store operations at the end of runQueryJob throws
FinalizeThrows ==
  /\ pc = "finalize"
  /\ CanFail
  /\ failures' = failures + 1
  /\ \E message \in ExceptionMessages : CatchError(message)
  /\ Track(jobs')
  /\ UNCHANGED <<svc, ret, settings, issuesDb, tracker, calls,
                 createAfterAbort, procLog>>


(* ------------------------ reconciler: fetch --------------------------- *)
Rest == <<run, settings, issuesDb, tracker, failures, calls,
          createAfterAbort, procLog>>

\* the Error value process() returns for an exception caught in its catch
\* blocks: errorHandler renames it to the reconciler's class name
Caught(source, message, upstream) ==
  ErrorValue(HandlerName(source), "", message, upstream)

\* GitHubService.process: an Azure DevOps failure in the lookup loop, either
\* the AxiosError value searchWorkItemByIssueId returned or the exception
\* getWorkItemByUrl threw after naming it 'DevOpsService'
LookupError(source, message) ==
  IF source = "github"
  THEN ErrorValue("DevOpsService", "Azure DevOps", message, "Azure DevOps")
  ELSE Caught(source, message, "Azure DevOps")

\* GitHubService.process / addIssues catch block: the AxiosError axios threw
\* is named 'AxiosError' and has no _sourceService
CreateError(source, message) == Caught(source, message, "Azure DevOps")

\* StackOverflowService.getIssues: `response` is the pending promise of the
\* async handleServiceResponse, so `response.data?.items || []` is []
QaItemsOf(payload) == <<>>

\* GitHubService.process start: await getSettings(), then test data or repos
GhAfterSettings ==
  /\ pc = "ghSettings"
  /\ IF settings.useTestData
     THEN \E data \in GitHubTestData :
            AfterFetch([svc EXCEPT !.items = data], jobs)
     ELSE \E repos \in RepoLists :
            UnitDone([svc EXCEPT !.units = repos], jobs)
  /\ Track(jobs')
  /\ UNCHANGED Rest

\* getIssues after its sleep: checkAborted, then await settings / config
AfterSleep ==
  /\ pc = "sleep"
  /\ IF aborted THEN ProcThrow(svc, jobs) ELSE Goto(svc, "getSettings", jobs)
  /\ Track(jobs')
  /\ UNCHANGED Rest

\* getIssues: test data, or issue the fetch request
AfterGetSettings ==
  /\ pc = "getSettings"
  /\ IF IsQA(svc.source) /\ settings.useTestData
     THEN /\ UnitDone([svc EXCEPT !.items = @ \o getTestData(svc.source)], jobs)
          /\ UNCHANGED <<calls, failures>>
     ELSE \/ /\ calls' = [calls EXCEPT !.fetch = @ + 1]
             /\ Goto(svc, "fetching", jobs)
             /\ UNCHANGED failures
          \/ \* getGitHubConfig: no GitHub token in the keychain
             /\ svc.source = "github"
             /\ CanFail
             /\ failures' = failures + 1
             /\ ProcReturn(svc, Caught(svc.source, "GitHub token is not configured", "source"), jobs)
             /\ UNCHANGED calls
  /\ Track(jobs')
  /\ UNCHANGED <<run, settings, issuesDb, tracker,
                 createAfterAbort, procLog>>

\* the fetch request settles
FetchResponse ==
  /\ pc = "fetching"
  /\ IF aborted /\ CarriesSignal("fetch")
     THEN /\ ProcReturn(svc, Caught(svc.source, "canceled", "source"), jobs)
          /\ UNCHANGED failures
     ELSE \/ /\ UnitDone([svc EXCEPT !.items = @ \o
                            IF IsQA(svc.source) THEN QaItemsOf(svc.units[svc.unit])
                            ELSE svc.units[svc.unit]], jobs)
             /\ UNCHANGED failures
          \/ /\ CanFail
             /\ failures' = failures + 1
             /\ \/ IF IsQA(svc.source)
                   THEN Goto(svc, "sleep429", jobs)
                   ELSE ProcReturn(svc, Caught(svc.source, "HTTP 429", "source"), jobs)
                \/ ProcReturn(svc, Caught(svc.source, "HTTP 500", "source"), jobs)
  /\ Track(jobs')
  /\ UNCHANGED <<run, settings, issuesDb, tracker, calls,
                 createAfterAbort, procLog>>

\* variant that rethrows the 429 instead of returning its response
After429Sleep_Rethrows ==
  /\ pc = "sleep429"
  /\ ProcReturn(svc, Caught(svc.source, "HTTP 429", "source"), jobs)
  /\ Track(jobs')
  /\ UNCHANGED Rest

\* fetchStackOverflowIssues after sleep(5100): return the 429 response
After429Sleep ==
  /\ pc = "sleep429"
  /\ UnitDone([svc EXCEPT !.items = @ \o QaItemsOf(<<>>)], jobs)
  /\ Track(jobs')
  /\ UNCHANGED Rest

\* issuesDb.update(found.issues), issuesDb.update(found.count), first lookup
PersistFound ==
  /\ pc = "persistFound"
  /\ issuesDb' = [issuesDb EXCEPT ![SnapshotKey(svc.source, svc.units)].found =
                    [issues |-> svc.issues, count |-> Len(svc.issues)]]
  /\ StartIssue([svc EXCEPT !.i = 0], jobs)
  /\ Track(jobs')
  /\ UNCHANGED <<run, settings, tracker, failures, calls,
                 createAfterAbort, procLog>>


\* one of the two found updates throws: the catch block returns the error;
\* written is the number of updates that had completed
PersistFoundThrows ==
  /\ pc = "persistFound"
  /\ CanFail
  /\ failures' = failures + 1
  /\ \E written \in {0, 1} :
       issuesDb' = IF written = 0 THEN issuesDb
                   ELSE [issuesDb EXCEPT
                           ![SnapshotKey(svc.source, svc.units)].found.issues =
                             svc.issues]
  /\ ProcReturn(svc, Caught(svc.source, "store failure", "source"), jobs)
  /\ Track(jobs')
  /\ UNCHANGED <<run, settings, tracker, calls, createAfterAbort, procLog>>


(* --------------------- reconciler: lookup and diff -------------------- *)
CurrentIssue == svc.issues[svc.i]

\* searchWorkItemByIssueId: credentials read, the WIQL request is issued
SearchCall ==
  /\ pc = "searchPrep"
  /\ calls' = [calls EXCEPT !.search = @ + 1]
  /\ Goto(svc, "searching", jobs)
  /\ Track(jobs')
  /\ UNCHANGED <<run, settings, issuesDb, tracker, failures,
                 createAfterAbort, procLog>>

\* the search returned an Error value (it never throws)
SearchFailed(message) ==
  IF IsQA(svc.source)
  THEN \* status is not 200: neither branch runs, the issue is skipped
       StartIssue(svc, jobs)
  ELSE \* instanceof AxiosError: return it attributed to Azure DevOps
       ProcReturn(svc, LookupError(svc.source, message), jobs)

\* the WIQL request settles
SearchResponse ==
  /\ pc = "searching"
  /\ IF aborted /\ CarriesSignal("search")
     THEN /\ SearchFailed("canceled")
          /\ UNCHANGED failures
     ELSE \/ /\ UNCHANGED failures
             /\ LET found == SearchWorkItems(CurrentIssue.id)
                IN IF found = <<>>
                   THEN StartIssue([svc EXCEPT !.unassignedIssues =
                                      Append(@, CurrentIssue)], jobs)
                   ELSE StartWorkItem([svc EXCEPT !.workItems = found,
                                                  !.j = 0], jobs)
          \/ /\ CanFail
             /\ failures' = failures + 1
             /\ SearchFailed("HTTP 500")
  /\ Track(jobs')
  /\ UNCHANGED <<run, settings, issuesDb, tracker, calls,
                 createAfterAbort, procLog>>

\* getWorkItemByUrl: credentials read, the GET request is issued
GetCall ==
  /\ pc = "getPrep"
  /\ calls' = [calls EXCEPT !.get = @ + 1]
  /\ Goto(svc, "getting", jobs)
  /\ Track(jobs')
  /\ UNCHANGED <<run, settings, issuesDb, tracker, failures,
                 createAfterAbort, procLog>>

\* the GET request settles; on success await getAzureDevOpsConfig()
GetResponse ==
  /\ pc = "getting"
  /\ IF aborted /\ CarriesSignal("get")
     THEN /\ ProcReturn(svc, LookupError(svc.source, "canceled"), jobs)
          /\ UNCHANGED failures
     ELSE \/ /\ Goto(svc, "getConfig", jobs)
             /\ UNCHANGED failures
          \/ /\ CanFail
             /\ failures' = failures + 1
             /\ ProcReturn(svc, LookupError(svc.source, "HTTP 500"), jobs)
  /\ Track(jobs')
  /\ UNCHANGED <<run, settings, issuesDb, tracker, calls,
                 createAfterAbort, procLog>>

\* possibleDevOpsMatches.push / existingIssuesDetails.push, next work item
AfterGetConfig ==
  /\ pc = "getConfig"
  /\ LET w == svc.workItems[svc.j]
         m == [id |-> w.id, issueId |-> CurrentIssue.id, title |-> w.title]
     IN StartWorkItem([svc EXCEPT !.matches = Append(@, m)], jobs)
  /\ Track(jobs')
  /\ UNCHANGED Rest

\* some match has the issue's Custom.IssueID and System.Title
Exists(matches, issue) ==
  \E n \in DOMAIN matches :
    matches[n].issueId = issue.id /\ matches[n].title = issue.title

\* StackOverflowService.process diff loop: mark unassigned entries 'New'
\* when a match with the same id and title exists
MarkNew(unassigned, issues, matches) ==
  [n \in DOMAIN unassigned |->
     IF \E k \in DOMAIN issues :
          /\ Exists(matches, issues[k])
          /\ unassigned[n].id = issues[k].id
          /\ unassigned[n].title = issues[k].title
          /\ \A m \in 1..(n - 1) :
               ~(unassigned[m].id = issues[k].id /\
                 unassigned[m].title = issues[k].title)
     THEN [unassigned[n] EXCEPT !.status = "New"]
     ELSE unassigned[n]]

\* variant of the diff loop that pushes every issue, matched or not
PushUnmatched_All(unassigned, issues, matches) == unassigned \o issues

\* GitHubService.process diff loop: push every issue without an exact match
PushUnmatched(unassigned, issues, matches) ==
  unassigned \o SelectSeq(issues, LAMBDA issue : ~Exists(matches, issue))

\* issuesDb.update(devOps), then the diff loop
PersistDevOps ==
  /\ pc = "persistDevOps"
  /\ issuesDb' = [issuesDb EXCEPT ![SnapshotKey(svc.source, svc.units)].devOps =
                    svc.matches]
  /\ AfterDiff([svc EXCEPT !.unassignedIssues =
                  IF IsQA(svc.source)
                  THEN MarkNew(@, svc.issues, svc.matches)
                  ELSE PushUnmatched(@, svc.issues, svc.matches)], jobs)
  /\ Track(jobs')
  /\ UNCHANGED <<run, settings, tracker, failures, calls,
                 createAfterAbort, procLog>>

\* the devOps update throws
PersistDevOpsThrows ==
  /\ pc = "persistDevOps"
  /\ CanFail
  /\ failures' = failures + 1
  /\ ProcReturn(svc, Caught(svc.source, "store failure", "source"), jobs)
  /\ Track(jobs')
  /\ UNCHANGED <<run, settings, issuesDb, tracker, calls, createAfterAbort,
                 procLog>>

(* ------------------------ reconciler: create -------------------------- *)
\* whether this reconciler returns before addIssues when push is disabled
SkipsPush(source) == source = "github" /\ ~run.pushToDevOps

\* issuesDb.update(newIssues.*), the report-only return, or addIssues up to
\* its first getCredentials
PersistNew ==
  /\ pc = "persistNew"
  /\ issuesDb' = [issuesDb EXCEPT ![SnapshotKey(svc.source, svc.units)].newIssues =
                    [issues |-> svc.unassignedIssues,
                     count |-> Len(svc.unassignedIssues)]]
  /\ IF SkipsPush(svc.source)
     THEN ProcReturn(svc, Report(200, "found but not pushed"), jobs)
     ELSE StartCreate([svc EXCEPT !.i = 0], jobs)
  /\ Track(jobs')
  /\ UNCHANGED <<run, settings, tracker, failures, calls,
                 createAfterAbort, procLog>>

\* one of the two newIssues updates throws
PersistNewThrows ==
  /\ pc = "persistNew"
  /\ CanFail
  /\ failures' = failures + 1
  /\ \E written \in {0, 1} :
       issuesDb' = IF written = 0 THEN issuesDb
                   ELSE [issuesDb EXCEPT
                           ![SnapshotKey(svc.source, svc.units)].newIssues.issues =
                             svc.unassignedIssues]
  /\ ProcReturn(svc, Caught(svc.source, "store failure", "source"), jobs)
  /\ Track(jobs')
  /\ UNCHANGED <<run, settings, tracker, calls, createAfterAbort, procLog>>

\* addIssues: credentials read, the create request is issued
CreateCall ==
  /\ pc = "createPrep"
  /\ calls' = [calls EXCEPT !.create = @ + 1]
  /\ createAfterAbort' = (createAfterAbort \/ aborted)
  /\ Goto(svc, "creating", jobs)
  /\ Track(jobs')
  /\ UNCHANGED <<run, settings, issuesDb, tracker, failures,
                 procLog>>

Created(issue) ==
  Append(tracker, WorkItem(Len(tracker) + 1, issue.id, issue.title))

\* the create request settles; an aborted request may or may not have
\* reached the tracker
CreateResponse ==
  /\ pc = "creating"
  /\ LET issue == svc.unassignedIssues[svc.i]
     IN IF aborted /\ CarriesSignal("create")
        THEN /\ tracker' \in {tracker, Created(issue)}
             /\ ProcReturn(svc, CreateError(svc.source, "canceled"), jobs)
             /\ UNCHANGED failures
        ELSE \/ /\ tracker' = Created(issue)
                /\ StartCreate(svc, jobs)
                /\ UNCHANGED failures
             \/ /\ CanFail
                /\ failures' = failures + 1
                /\ tracker' = tracker
                /\ ProcReturn(svc, CreateError(svc.source, "HTTP 500"), jobs)
  /\ Track(jobs')
  /\ UNCHANGED <<run, settings, issuesDb, calls,
                 createAfterAbort, procLog>>

(* --------------------------- specification ---------------------------- *)
EnabledChoices == SUBSET {"stackOverflow", "internalStackOverflow", "github"}

Next ==
  \/ \E en \in EnabledChoices, push \in {"undefined", "true", "false"} :
       StartJob(en, push)
  \/ cancelJob
  \/ PostCancel
  \/ GetJob
  \/ ReadSettings
  \/ ReadSettingsThrows
  \/ CredentialsRead
  \/ ValidateResponse
  \/ Gate
  \/ RecordResult
  \/ CatchAbort
  \/ Finalize
  \/ FinalizeThrows
  \/ GhAfterSettings
  \/ AfterSleep
  \/ AfterGetSettings
  \/ FetchResponse
  \/ After429Sleep
  \/ PersistFound
  \/ PersistFoundThrows
  \/ SearchCall
  \/ SearchResponse
  \/ GetCall
  \/ GetResponse
  \/ AfterGetConfig
  \/ PersistDevOps
  \/ PersistDevOpsThrows
  \/ PersistNew
  \/ PersistNewThrows
  \/ CreateCall
  \/ CreateResponse

Spec == Init /\ [][Next]_vars

(* ------------------- deduplication, taken on its own ------------------ *)
(* items holds what the fetch loop pushed: plain objects, so the flattening
   reduce of removeDuplicates leaves it as it is. *)
\* ItemA returned a second time with an edited title; issue 1 of another
\* repository
EdgeA2 == [number |-> 1, title |-> T2, url |-> "u1"]
EdgeC == [number |-> 1, title |-> T1, url |-> "u3"]
EdgeItems == {ItemA, ItemB, EdgeA2, EdgeC}
QuestionItems ==
  {[question_id |-> 1, title |-> T1], [question_id |-> 1, title |-> T2],
   [question_id |-> 2, title |-> T1]}
ItemLists(S) == UNION {[1..n -> S] : n \in 0..MaxItems}

\* the key function each reconciler passes to removeDuplicates
KeyFn(source) == IF source = "github" THEN EdgeUrl ELSE QuestionKey

DedupInit ==
  /\ jobs = <<>>
  /\ pc = "items"
  /\ run = NoRun
  /\ \E source \in {"stackOverflow", "github"} :
       \E items \in ItemLists(IF source = "github" THEN EdgeItems
                                                   ELSE QuestionItems) :
         svc = [source |-> source, items |-> items, uniqueIssues |-> <<>>,
                twice |-> <<>>, doubled |-> <<>>]
  /\ ret = NoReturn
  /\ settings = [useTestData |-> FALSE]
  /\ issuesDb = issuesModel
  /\ tracker = <<>>
  /\ failures = 0
  /\ calls = [validate |-> 0, fetch |-> 0, search |-> 0, get |-> 0, create |-> 0]
  /\ createAfterAbort = FALSE
  /\ hist = <<>>
  /\ procLog = <<>>
  /\ cancelRet = "none"
  /\ httpStatus = 0
  /\ route = "none"
  /\ cancelAt = "none"
  /\ first = <<>>

DedupFrame ==
  UNCHANGED <<jobs, run, ret, settings, issuesDb, tracker, failures, calls,
              createAfterAbort, hist, procLog, cancelRet, httpStatus, route,
              cancelAt, first>>

\* const uniqueIssues = removeDuplicates(items, key)
Dedup ==
  /\ pc = "items"
  /\ svc' = [svc EXCEPT !.uniqueIssues =
               removeDuplicates(svc.items, KeyFn(svc.source), {})]
  /\ pc' = "uniqueIssues"
  /\ DedupFrame

\* removeDuplicates applied to its own output
DedupTwice ==
  /\ pc = "uniqueIssues"
  /\ svc' = [svc EXCEPT !.twice =
               removeDuplicates(svc.uniqueIssues, KeyFn(svc.source), {})]
  /\ pc' = "twice"
  /\ DedupFrame

\* removeDuplicates applied to the same payload pushed twice
DedupDoubled ==
  /\ pc = "uniqueIssues"
  /\ svc' = [svc EXCEPT !.doubled =
               removeDuplicates(svc.items \o svc.items, KeyFn(svc.source), {})]
  /\ pc' = "doubled"
  /\ DedupFrame

DedupNext == Dedup \/ DedupTwice \/ DedupDoubled

SpecDedup == DedupInit /\ [][DedupNext]_vars

(* ------------------------------ a second job --------------------------- *)
\* POST / once more, with the same request body, after a job has completed:
\* a new job is created and runQueryJob starts again.  The model follows the
\* newest job; first keeps what the job before it left behind.
Rerun ==
  /\ pc = "done"
  /\ JobExists /\ Job.status = "completed"
  /\ first = <<>>
  /\ first' = <<[pushToDevOps |-> run.pushToDevOps,
                 serviceErrors |-> Job.result.serviceErrors,
                 issues |-> issuesDb,
                 creates |-> calls.create]>>
  /\ jobs' = createJob
  /\ run' = [NoRun EXCEPT !.enabledServices = run.enabledServices,
                          !.pushToDevOps = run.pushToDevOps]
  /\ pc' = "readSettings"
  /\ svc' = NoSvc
  /\ ret' = NoReturn
  /\ calls' = [validate |-> 0, fetch |-> 0, search |-> 0, get |-> 0, create |-> 0]
  /\ createAfterAbort' = FALSE
  /\ hist' = <<"running">>
  /\ procLog' = <<>>
  /\ cancelRet' = "none" /\ httpStatus' = 0 /\ route' = "none"
  /\ cancelAt' = "none"
  /\ UNCHANGED <<settings, issuesDb, tracker, failures>>

\* the tags each Q&A source is shipped with
ShippedTags(source) ==
  IF source = "internalStackOverflow" THEN <<"bot-framework">>
  ELSE <<"botframework">>

\* both jobs run with the same configuration, the shipped tags
RerunGate ==
  /\ Gate
  /\ (pc' \notin {"gate", "finalize"} /\ IsQA(svc'.source)) =>
       svc'.units = ShippedTags(svc'.source)

\* two jobs one after the other, nobody cancelling
RerunNext ==
  \/ \E en \in EnabledChoices, push \in {"undefined", "true", "false"} :
       StartJob(en, push)
  \/ Rerun
  \/ ReadSettings
  \/ ReadSettingsThrows
  \/ CredentialsRead
  \/ ValidateResponse
  \/ RerunGate
  \/ RecordResult
  \/ Finalize
  \/ FinalizeThrows
  \/ GhAfterSettings
  \/ AfterSleep
  \/ AfterGetSettings
  \/ FetchResponse
  \/ After429Sleep
  \/ PersistFound
  \/ PersistFoundThrows
  \/ SearchCall
  \/ SearchResponse
  \/ GetCall
  \/ GetResponse
  \/ AfterGetConfig
  \/ PersistDevOps
  \/ PersistDevOpsThrows
  \/ PersistNew
  \/ PersistNewThrows
  \/ CreateCall
  \/ CreateResponse

SpecRerun == Init /\ [][RerunNext]_vars

(* ---------------------- the query instant, on its own ------------------ *)
(* A parameter that may be missing is <<>> (undefined) or <<v>>.  A local
   time is day (days counted from some origin), hour, minute, second, ms. *)
\* what `x || ...` skips: undefined and 0
Falsy(v) == v = <<>> \/ v = <<0>>

\* queryParams.numberOfDaysToQuery || settings.queryDefaults?.numberOfDaysToQuery || 1
numberOfDays(queryParams, queryDefaults) ==
  IF ~Falsy(queryParams.numberOfDaysToQuery)
  THEN queryParams.numberOfDaysToQuery[1]
  ELSE IF ~Falsy(queryDefaults.numberOfDaysToQuery)
       THEN queryDefaults.numberOfDaysToQuery[1]
       ELSE DefaultNumberOfDays

\* queryParams.startHour || settings.queryDefaults?.startHour || 10
startHour(queryParams, queryDefaults) ==
  IF ~Falsy(queryParams.startHour) THEN queryParams.startHour[1]
  ELSE IF ~Falsy(queryDefaults.startHour) THEN queryDefaults.startHour[1]
       ELSE DefaultStartHour

\* setDate(getDate() - numberOfDays); setHours(startHour, 0, 0, 0)
queryDate(now, queryParams, queryDefaults) ==
  [day |-> now.day - numberOfDays(queryParams, queryDefaults),
   hour |-> startHour(queryParams, queryDefaults),
   minute |-> 0, second |-> 0, ms |-> 0]

Optional(S) == {<<>>} \cup {<<v>> : v \in S}
JobStartTimes ==
  {[day |-> 10, hour |-> h, minute |-> 30, second |-> 15, ms |-> 500] :
     h \in {0, 9, 23}}

\* every variable but pc, run and svc as a fresh process has it
Quiescent ==
  /\ jobs = <<>>
  /\ ret = NoReturn
  /\ settings = [useTestData |-> FALSE]
  /\ issuesDb = issuesModel
  /\ tracker = <<>>
  /\ failures = 0
  /\ calls = [validate |-> 0, fetch |-> 0, search |-> 0, get |-> 0, create |-> 0]
  /\ createAfterAbort = FALSE
  /\ hist = <<>>
  /\ procLog = <<>>
  /\ cancelRet = "none"
  /\ httpStatus = 0
  /\ route = "none"
  /\ cancelAt = "none"
  /\ first = <<>>

QuiescentFrame ==
  UNCHANGED <<jobs, ret, settings, issuesDb, tracker, failures, calls,
              createAfterAbort, hist, procLog, cancelRet, httpStatus, route,
              cancelAt, first>>

QueryDateInit ==
  /\ pc = "now"
  /\ svc = NoSvc
  /\ \E now \in JobStartTimes,
        hour \in Optional(0..23), days \in Optional(0..MaxDays),
        defaultHour \in Optional({0, 8}) :
       run = [now |-> now,
              queryParams |-> [startHour |-> hour,
                               numberOfDaysToQuery |-> days],
              queryDefaults |-> [startHour |-> defaultHour,
                                 numberOfDaysToQuery |-> <<>>],
              queryDate |-> now]
  /\ Quiescent

\* runQueryJob: let queryDate = new Date() ... queryDate.setHours(...)
DeriveQueryDate ==
  /\ pc = "now"
  /\ run' = [run EXCEPT !.queryDate =
               queryDate(run.now, run.queryParams, run.queryDefaults)]
  /\ pc' = "queryDate"
  /\ svc' = svc
  /\ QuiescentFrame

QueryDateNext == DeriveQueryDate

SpecQueryDate == QueryDateInit /\ [][QueryDateNext]_vars

(* ---------------- DevOpsService.validateCredentials alone --------------- *)
\* org and PAT as the keychain gives them; "" stands for a missing value
CredentialChoices == [org : {"", "contoso"}, pat : {"", "pat"}]

\* how axios settles the request: a 2xx response with or without a body, a
\* rejection with a response, or a rejection without one
Responses == [kind : {"response"}, status : {200, 201, 204}, data : BOOLEAN]
HttpErrors ==
  [kind : {"httpError"}, status : {400, 401, 403, 404, 429, 500, 503}]
NetErrors ==
  [kind : {"netError"},
   code : {"ENOTFOUND", "ECONNREFUSED", "ETIMEDOUT", "ERR_CANCELED", ""},
   message : {"", "timeout of 10000ms exceeded"}]
Answers == Responses \cup HttpErrors \cup NetErrors

\* variant of validateCredentials that does not test the response body
DevOpsService_validateCredentials_NoBodyTest(credentials, answer) ==
  IF credentials.org = "" \/ credentials.pat = ""
  THEN [valid |-> FALSE, error |-> "Organization and PAT are required"]
  ELSE IF answer.kind = "response" /\ answer.status = 200
       THEN [valid |-> TRUE, error |-> NULL]
       ELSE [valid |-> FALSE, error |-> "API error"]

\* DevOpsService.validateCredentials: the value it returns for the
\* credentials and for the way the request settles
DevOpsService_validateCredentials(credentials, answer) ==
  IF credentials.org = "" \/ credentials.pat = ""
  THEN [valid |-> FALSE, error |-> "Organization and PAT are required"]
  ELSE CASE answer.kind = "response" ->
              IF answer.status = 200 /\ answer.data
              THEN [valid |-> TRUE, error |-> NULL]
              ELSE [valid |-> FALSE,
                    error |-> "Unexpected response: " \o ToString(answer.status)]
         [] answer.kind = "httpError" ->
              [valid |-> FALSE,
               error |-> CASE answer.status = 401 -> "Invalid or expired PAT"
                           [] answer.status = 403 ->
                                "PAT lacks required permissions"
                           [] answer.status = 404 -> "Organization not found"
                           [] OTHER ->
                                "API error: " \o ToString(answer.status)]
         [] OTHER ->
              [valid |-> FALSE,
               error |-> IF answer.code \in {"ENOTFOUND", "ECONNREFUSED"}
                         THEN "Unable to connect to Azure DevOps"
                         ELSE IF answer.message # "" THEN answer.message
                              ELSE "Validation failed"]

\* the requests validateCredentials sends: none after the early return
validateCredentialsRequests(credentials) ==
  IF credentials.org = "" \/ credentials.pat = "" THEN 0 ELSE 1

ValidateInit ==
  /\ pc = "credentials"
  /\ svc = NoSvc
  /\ \E credentials \in CredentialChoices, answer \in Answers :
       run = [credentials |-> credentials, answer |-> answer,
              validation |-> [valid |-> FALSE, error |-> NULL]]
  /\ Quiescent

\* const validation = await devOpsService.validateCredentials(...)
ValidateCall ==
  /\ pc = "credentials"
  /\ run' = [run EXCEPT !.validation =
               DevOpsService_validateCredentials(run.credentials, run.answer)]
  /\ calls' = [calls EXCEPT !.validate =
                 @ + validateCredentialsRequests(run.credentials)]
  /\ pc' = "validated"
  /\ svc' = svc
  /\ UNCHANGED <<jobs, ret, settings, issuesDb, tracker, failures,
                 createAfterAbort, hist, procLog, cancelRet, httpStatus,
                 route, cancelAt, first>>

ValidateNext == ValidateCall

SpecValidate == ValidateInit /\ [][ValidateNext]_vars

(* ------------ GitHubService.filterIssuesByLabelCreationTime ------------ *)
\* the label of the query and the label names of the events
QueriedLabel == "support"
EventLabels == {"Support", "bug"}

\* String.prototype.toLowerCase on the names above
toLowerCase(name) == IF name = "Support" THEN "support" ELSE name

\* instants: 0 is before lastRun, 1 is lastRun itself, 2 is after it
Instants == {0, 1, 2}

\* timeline nodes: a LabeledEvent has createdAt and label.name, any other
\* node has only its __typename
TimelineNodes ==
  [typename : {"LabeledEvent"}, label : EventLabels, createdAt : Instants]
  \cup {[typename |-> "ClosedEvent"]}
Timelines == UNION {[1..n -> TimelineNodes] : n \in 0..MaxEvents}

\* node?.label?.name?.toLowerCase() === label.toLowerCase()
LabelMatches(node, label) ==
  node.typename = "LabeledEvent" /\
  toLowerCase(node.label) = toLowerCase(label)

\* events.find(...): the first matching node, or nothing
find(events, label) ==
  LET hits == {k \in DOMAIN events : LabelMatches(events[k], label)}
  IN IF hits = {} THEN <<>>
     ELSE <<events[CHOOSE k \in hits : \A h \in hits : k <= h]>>

\* the test of one issue: createdAt of the node found, later than lastRun
KeepsIssue(issue, label, lastRun) ==
  LET labelEvent == find(issue.events, label)
  IN labelEvent # <<>> /\ labelEvent[1].createdAt > lastRun

RECURSIVE filterIssuesByLabelCreationTime(_, _, _, _)
filterIssuesByLabelCreationTime(issues, label, result, lastRun) ==
  IF issues = <<>> THEN result
  ELSE filterIssuesByLabelCreationTime(
         Tail(issues), label,
         IF KeepsIssue(Head(issues), label, lastRun)
         THEN Append(result, Head(issues)) ELSE result,
         lastRun)

\* an issue kept from an earlier label of the same repository
EarlierIssue == [number |-> 0, events |-> <<>>]

LabelFilterInit ==
  /\ pc = "edges"
  /\ svc = NoSvc
  /\ \E n \in 0..MaxEdges, result \in {<<>>, <<EarlierIssue>>} :
       \E timelines \in [1..n -> Timelines] :
         run = [issues |-> [i \in 1..n |->
                              [number |-> i, events |-> timelines[i]]],
                label |-> QueriedLabel,
                lastRun |-> 1,
                before |-> result,
                result |-> result]
  /\ Quiescent

\* getIssuesWithLabels: result = await this.filterIssuesByLabelCreationTime
FilterByLabel ==
  /\ pc = "edges"
  /\ run' = [run EXCEPT !.result =
               filterIssuesByLabelCreationTime(run.issues, run.label,
                                               run.result, run.lastRun)]
  /\ pc' = "filtered"
  /\ svc' = svc
  /\ QuiescentFrame

LabelFilterNext == FilterByLabel

SpecLabelFilter == LabelFilterInit /\ [][LabelFilterNext]_vars

(* ------------------- title.slice(0, 255) on UTF-16 --------------------- *)
\* code points of a title: two of the basic plane and one outside it
CodePointChoices == {"a", "b", "U+1F600"}

\* the UTF-16 code units a JavaScript string holds for one code point
CodeUnitsOf(codePoint) ==
  IF codePoint = "U+1F600" THEN <<"D83D", "DE00">> ELSE <<codePoint>>

\* the code units of a string, half by half
RECURSIVE CodeUnits(_)
CodeUnits(codePoints) ==
  IF codePoints = <<>> THEN <<>>
  ELSE IF Len(codePoints) = 1 THEN CodeUnitsOf(codePoints[1])
  ELSE LET half == Len(codePoints) \div 2
       IN CodeUnits(SubSeq(codePoints, 1, half)) \o
          CodeUnits(SubSeq(codePoints, half + 1, Len(codePoints)))

\* a surrogate without its partner is a code point of its own
CodePointOf(unit) ==
  IF unit \in {"D83D", "DE00"} THEN "U+" \o unit ELSE unit

\* units[at - 1] and units[at] are the two halves of one code point
PairEndsAt(units, at) ==
  at > 1 /\ units[at - 1] = "D83D" /\ units[at] = "DE00"

\* the code points of units[lo..hi], half by half, never splitting a pair
RECURSIVE CodePointsIn(_, _, _)
CodePointsIn(units, lo, hi) ==
  IF lo > hi THEN <<>>
  ELSE IF lo = hi THEN <<CodePointOf(units[lo])>>
  ELSE IF hi = lo + 1
       THEN IF PairEndsAt(units, hi) THEN <<"U+1F600">>
            ELSE <<CodePointOf(units[lo]), CodePointOf(units[hi])>>
  ELSE LET mid == (lo + hi) \div 2
           cut == IF PairEndsAt(units, mid + 1) THEN mid - 1 ELSE mid
       IN CodePointsIn(units, lo, cut) \o CodePointsIn(units, cut + 1, hi)

CodePoints(units) == CodePointsIn(units, 1, Len(units))

\* upstream titles around the limit: basic-plane characters, then some
\* outside the basic plane, then basic-plane characters again
TitleShapes ==
  [head : (TitleLimit - 5)..(TitleLimit + 1), astral : 0..3, tail : 0..2]
TitleOf(shape) ==
  [i \in 1..(shape.head + shape.astral + shape.tail) |->
     IF i <= shape.head THEN "a"
     ELSE IF i <= shape.head + shape.astral THEN "U+1F600" ELSE "b"]

TitleInit ==
  /\ pc = "title"
  /\ svc = NoSvc
  /\ \E shape \in TitleShapes :
       run = [title |-> TitleOf(shape), normalized |-> <<>>]
  /\ Quiescent

\* process: 'System.Title': title.slice(0, 255).toString()
NormalizeTitle ==
  /\ pc = "title"
  /\ run' = [run EXCEPT !.normalized =
               CodePoints(SliceTitle(CodeUnits(run.title)))]
  /\ pc' = "normalized"
  /\ svc' = svc
  /\ QuiescentFrame

TitleNext == NormalizeTitle

SpecTitle == TitleInit /\ [][TitleNext]_vars

(* --------------- ErrorHandler.handleServiceResponse alone -------------- *)
\* statuses a response can carry, below and from 400, listed in the switch
\* or left to its default
ResponseStatuses ==
  {200, 201, 204, 301, 302, 399, 400, 401, 403, 404, 418, 429, 500, 503}
ServiceNames == {"StackOverflowService", "GitHubService", "DevOpsService"}

\* deps.jsonStore?.loggingDb: absent, or a store whose read or write may fail
LoggingDbs ==
  {[present |-> FALSE, fails |-> "none", logs |-> <<>>]} \cup
  [present : {TRUE}, fails : {"none", "read", "write"},
   logs : {<<>>, <<"earlier stack">>}]

\* new Error(message): ref stands for the identity of the object
NewError(ref, message) ==
  [kind |-> "error", ref |-> ref, class |-> "Error", name |-> "Error",
   message |-> message]

\* errorHandler: names the error, logs its stack when the store works, and
\* returns the error it was given
errorHandler(error, serviceName, loggingDb) ==
  [value |-> [error EXCEPT !.name =
                IF error.class \in {"AxiosError", "TypeError", "ReferenceError"}
                THEN serviceName
                ELSE IF serviceName # "" THEN serviceName ELSE "Unknown"],
   given |-> error,
   serviceName |-> serviceName,
   logs |-> IF loggingDb.present /\ loggingDb.fails = "none"
            THEN Append(loggingDb.logs, error.message)
            ELSE loggingDb.logs]

\* variant of handleServiceResponse whose default case just breaks
handleServiceResponse_ListedOnly(res, serviceName, loggingDb) ==
  IF res.status \in {400, 401, 403, 404, 429, 500}
  THEN [handled |-> <<errorHandler(
                       NewError("e1", serviceName \o " HTTP " \o
                                      ToString(res.status)),
                       serviceName, loggingDb)>>,
        value |-> [NewError("e1", serviceName \o " HTTP " \o
                                  ToString(res.status))
                     EXCEPT !.name = serviceName]]
  ELSE [handled |-> <<>>, value |-> res]

\* handleServiceResponse: the value it resolves to and the errorHandler
\* calls it made
handleServiceResponse(res, serviceName, loggingDb) ==
  IF res.status \in {200, 204} THEN [handled |-> <<>>, value |-> res]
  ELSE IF res.status \in {400, 401, 403, 404, 429, 500} \/ res.status >= 400
  THEN LET call == errorHandler(
                     NewError("e1", serviceName \o " HTTP " \o
                                    ToString(res.status)),
                     serviceName, loggingDb)
       IN [handled |-> <<call>>, value |-> call.value]
  ELSE [handled |-> <<>>, value |-> res]

ResponseInit ==
  /\ pc = "response"
  /\ svc = NoSvc
  /\ \E status \in ResponseStatuses, serviceName \in ServiceNames,
        loggingDb \in LoggingDbs :
       run = [res |-> [kind |-> "response", status |-> status],
              serviceName |-> serviceName,
              loggingDb |-> loggingDb,
              out |-> [handled |-> <<>>, value |-> NULL]]
  /\ Quiescent

\* await this.handleServiceResponse(res, serviceName)
HandleResponse ==
  /\ pc = "response"
  /\ run' = [run EXCEPT !.out =
               handleServiceResponse(run.res, run.serviceName, run.loggingDb)]
  /\ pc' = "handled"
  /\ svc' = svc
  /\ QuiescentFrame

ResponseNext == HandleResponse

SpecResponse == ResponseInit /\ [][ResponseNext]_vars

(* -------------------- the Q&A fetch loop over several tags ------------- *)
\* real upstream data, Q&A sources configured with one tag more than MaxTags
QaTagLists == [1..(MaxTags + 1) -> TagNames]

QaFetchInit ==
  /\ Init
  /\ ~settings.useTestData
  /\ tracker = <<>>

QaGate ==
  /\ pc = "gate"
  /\ GateWith(QaTagLists)

QaFetchNext ==
  \/ \E en \in SUBSET {"stackOverflow", "internalStackOverflow"},
        push \in {"undefined", "true", "false"} :
       StartJob(en, push)
  \/ cancelJob
  \/ ReadSettings
  \/ CredentialsRead
  \/ ValidateResponse
  \/ QaGate
  \/ RecordResult
  \/ CatchAbort
  \/ Finalize
  \/ AfterSleep
  \/ AfterGetSettings
  \/ FetchResponse
  \/ After429Sleep

SpecQaFetch == QaFetchInit /\ [][QaFetchNext]_vars

(* ------------------- settings patched while a job runs ----------------- *)
\* PATCH /api/settings with { useTestData: ... } while runQueryJob is
\* suspended in an await: settingsDb.update(key, value)
PatchSettings ==
  /\ pc \in YieldPoints
  /\ settings' = [settings EXCEPT !.useTestData = ~@]
  /\ httpStatus' = 200
  /\ route' = "settings"
  /\ cancelRet' = "none"
  /\ UNCHANGED <<jobs, pc, run, svc, ret, issuesDb, tracker, failures, calls,
                 createAfterAbort, hist, procLog, cancelAt, first>>

\* one job, nobody cancelling, the settings patched at any await
PatchNext ==
  \/ \E en \in EnabledChoices, push \in {"undefined", "true", "false"} :
       StartJob(en, push)
  \/ PatchSettings
  \/ ReadSettings
  \/ CredentialsRead
  \/ ValidateResponse
  \/ Gate
  \/ RecordResult
  \/ Finalize
  \/ GhAfterSettings
  \/ AfterSleep
  \/ AfterGetSettings
  \/ FetchResponse
  \/ After429Sleep
  \/ PersistFound
  \/ SearchCall
  \/ SearchResponse
  \/ GetCall
  \/ GetResponse
  \/ AfterGetConfig
  \/ PersistDevOps
  \/ PersistNew
  \/ CreateCall
  \/ CreateResponse

SpecPatch == Init /\ [][PatchNext]_vars

(* ------------------------ two jobs at the same time -------------------- *)
(* POST / does not look for a running job: it creates a job and calls
   runQueryJob without awaiting it, so a second job can start while the first
   is suspended at an await.  pc, run, svc, ret, jobs, hist, procLog, calls,
   createAfterAbort and cancelAt belong to the job whose continuation runs
   next; first holds the same for the other, suspended job.  settings,
   issuesDb and tracker are the stores both jobs share. *)
Context ==
  [pc |-> pc, run |-> run, svc |-> svc, ret |-> ret, jobs |-> jobs,
   hist |-> hist, procLog |-> procLog, calls |-> calls,
   createAfterAbort |-> createAfterAbort, cancelAt |-> cancelAt]

\* the request bodies of the two jobs: one source each
OneSource == {{"stackOverflow"}, {"github"}}

TwoJobsInit ==
  /\ Init
  /\ tracker = <<>>

\* POST / while the first job is suspended at an await
PostSecond ==
  /\ pc \in YieldPoints
  /\ first = <<>>
  /\ first' = <<Context>>
  /\ jobs' = createJob
  /\ \E en \in OneSource :
       run' = [NoRun EXCEPT !.enabledServices = en, !.pushToDevOps = TRUE]
  /\ pc' = "readSettings"
  /\ svc' = NoSvc
  /\ ret' = NoReturn
  /\ calls' = [validate |-> 0, fetch |-> 0, search |-> 0, get |-> 0, create |-> 0]
  /\ createAfterAbort' = FALSE
  /\ hist' = <<"running">>
  /\ procLog' = <<>>
  /\ cancelRet' = "none" /\ httpStatus' = 0 /\ route' = "none"
  /\ cancelAt' = "none"
  /\ UNCHANGED <<settings, issuesDb, tracker, failures>>

\* the event loop resumes the other job: the awaited operation of the one
\* that ran is still pending, or that job has ended
Resume ==
  /\ first # <<>>
  /\ pc \in YieldPoints \cup {"done"}
  /\ first' = <<Context>>
  /\ pc' = first[1].pc
  /\ run' = first[1].run
  /\ svc' = first[1].svc
  /\ ret' = first[1].ret
  /\ jobs' = first[1].jobs
  /\ hist' = first[1].hist
  /\ procLog' = first[1].procLog
  /\ calls' = first[1].calls
  /\ createAfterAbort' = first[1].createAfterAbort
  /\ cancelAt' = first[1].cancelAt
  /\ cancelRet' = "none" /\ httpStatus' = 0 /\ route' = "none"
  /\ UNCHANGED <<settings, issuesDb, tracker, failures>>

TwoJobsNext ==
  \/ \E en \in OneSource : StartJob(en, "true")
  \/ PostSecond
  \/ Resume
  \/ ReadSettings
  \/ CredentialsRead
  \/ ValidateResponse
  \/ RerunGate
  \/ RecordResult
  \/ Finalize
  \/ GhAfterSettings
  \/ AfterSleep
  \/ AfterGetSettings
  \/ FetchResponse
  \/ After429Sleep
  \/ PersistFound
  \/ SearchCall
  \/ SearchResponse
  \/ GetCall
  \/ GetResponse
  \/ AfterGetConfig
  \/ PersistDevOps
  \/ PersistNew
  \/ CreateCall
  \/ CreateResponse

SpecTwoJobs == TwoJobsInit /\ [][TwoJobsNext]_vars

(* ----------------------------- termination ----------------------------- *)
\* a step of runQueryJob or of the reconciler it awaits: the continuation
\* that runs when the awaited request or store operation returns or fails
JobStep ==
  \/ ReadSettings
  \/ ReadSettingsThrows
  \/ CredentialsRead
  \/ ValidateResponse
  \/ Gate
  \/ RecordResult
  \/ CatchAbort
  \/ Finalize
  \/ FinalizeThrows
  \/ GhAfterSettings
  \/ AfterSleep
  \/ AfterGetSettings
  \/ FetchResponse
  \/ After429Sleep
  \/ PersistFound
  \/ PersistFoundThrows
  \/ SearchCall
  \/ SearchResponse
  \/ GetCall
  \/ GetResponse
  \/ AfterGetConfig
  \/ PersistDevOps
  \/ PersistDevOpsThrows
  \/ PersistNew
  \/ PersistNewThrows
  \/ CreateCall
  \/ CreateResponse

\* one job, cancelled at any await or never
LiveNext ==
  \/ \E en \in EnabledChoices, push \in {"undefined", "true", "false"} :
       StartJob(en, push)
  \/ cancelJob
  \/ JobStep

\* every awaited operation eventually settles, so the continuation of the
\* job eventually runs; each step of the job moves pc or the locals of
\* runQueryJob.  A cancel request may come at any await or never.
SpecLive == Init /\ [][LiveNext]_vars /\ WF_<<pc, run>>(JobStep)

(* ------------------------------ properties ---------------------------- *)
\* C1: a job's status leaves 'running' exactly once and never changes
\* afterwards: the statuses a job goes through are 'running' followed by at
\* most one terminal status.
C1_StatusLeavesRunningOnce ==
  /\ Len(hist) <= 2
  /\ Len(hist) >= 1 => hist[1] = "running"

\* C2: once the job's cancel token has been signalled, no work-item create
\* request is issued for that job.
C2_NoCreateAfterCancel == ~createAfterAbort

\* C3: a job started with pushToDevOps = false issues no work-item create
\* request, whichever reconcilers run.
C3_NoCreateWhenPushDisabled ==
  (JobExists /\ ~run.pushToDevOps) => calls.create = 0

\* C4: when credential validation applies and fails, the job ends 'completed',
\* no fetch, lookup or create request has been issued, result.services is
\* empty and result.serviceErrors is exactly one 'Azure DevOps' entry.
C4_ValidationFailureEndsJob ==
  (JobExists /\ run.validate /\ run.validation \notin {"none", "200"}) =>
    /\ Job.status = "completed"
    /\ calls.fetch = 0 /\ calls.search = 0 /\ calls.get = 0
    /\ calls.create = 0
    /\ ~Job.result.isNull
    /\ DOMAIN Job.result.services = {}
    /\ Len(Job.result.serviceErrors) = 1
    /\ Job.result.serviceErrors[1].service = "Azure DevOps"

\* C4 case: the tracker answered the validation request with 401 and the job
\* has ended
C4_Witness ==
  /\ JobExists /\ pc = "done" /\ run.validate /\ run.validation = "401"
  /\ Job.status = "completed"
  /\ Job.result.serviceErrors[1].message = "Invalid or expired PAT"

\* the reconciler has gone through its diff step and is returning a report
AfterDiffReport ==
  /\ pc = "returned" /\ ret.kind = "report"
  /\ ret.message \in {"No new posts to add", "No new issues to add",
                      "created", "found but not pushed"}

\* C5: for every source, a found issue whose only work items have a different
\* title is classified as new, i.e. it is in the reconciler's newIssues.
C5_TitleMismatchIsNew ==
  AfterDiffReport =>
    \A n \in DOMAIN svc.issues :
      LET issue == svc.issues[n]
      IN ((\E k \in DOMAIN svc.matches : svc.matches[k].issueId = issue.id) /\
          ~Exists(svc.matches, issue))
         => \E k \in DOMAIN svc.unassignedIssues :
              /\ svc.unassignedIssues[k].id = issue.id
              /\ svc.unassignedIssues[k].title = issue.title

\* C6: every found issue that had work items in the tracker and is absent
\* from newIssues after the diff has a devOps entry in the snapshot with the
\* same issue id and an identical title.
C6_ExistingHasIdenticalEntry ==
  AfterDiffReport =>
    LET devOps == issuesDb[SnapshotKey(svc.source, svc.units)].devOps
    IN \A n \in DOMAIN svc.issues :
         LET issue == svc.issues[n]
         IN ((\E k \in DOMAIN svc.matches : svc.matches[k].issueId = issue.id) /\
             ~(\E k \in DOMAIN svc.unassignedIssues :
                 svc.unassignedIssues[k].id = issue.id))
            => Exists(devOps, issue)

\* C7: a serviceErrors entry recorded for a failed Azure DevOps request
\* (search, work-item read or create) inside any reconciler names the
\* service 'Azure DevOps'.
C7_DevOpsFailuresAttributed ==
  \A n \in DOMAIN run.serviceErrors :
    run.serviceErrors[n].upstream = "Azure DevOps" =>
      run.serviceErrors[n].service = "Azure DevOps"

\* C8 as stated: once a reconciler's process() has returned an Error value,
\* the job has one serviceErrors entry per such return, every enabled source
\* is still run, and the job ends 'completed'.
C8_ErrorReturnKeepsJobGoing ==
  LET errs == SelectSeq(procLog, LAMBDA e : e[1] = "returnError")
  IN (pc = "done" /\ errs # <<>>) =>
       /\ Len(run.serviceErrors) = Len(errs)
       /\ \A s \in run.enabledServices :
            \E n \in DOMAIN procLog : procLog[n] = <<"start", s>>
       /\ Job.status = "completed"

\* C8 amended: when a reconciler's process() returns an Error value,
\* runQueryJob appends one serviceErrors entry for it; if the job is not
\* cancelled, every remaining enabled source is still run, and unless a store
\* operation of runQueryJob throws, the job ends 'completed' with the
\* serviceErrors entries and the reports of the sources that succeeded.
C8_ErrorReturnKeepsJobGoingUnlessCancelled ==
  LET errs == SelectSeq(procLog, LAMBDA e : e[1] = "returnError")
  IN /\ (errs # <<>> /\ pc # "returned") => Len(run.serviceErrors) = Len(errs)
     /\ (pc = "done" /\ errs # <<>> /\ ~aborted) =>
          /\ \A s \in run.enabledServices :
               \E n \in DOMAIN procLog : procLog[n] = <<"start", s>>
          /\ \/ Job.status = "completed"
             \/ Job.status = "error" /\ run.thrown # NULL
          /\ Job.status = "completed" =>
               /\ Job.result.serviceErrors = run.serviceErrors
               /\ \A n \in DOMAIN procLog :
                    procLog[n][1] = "return" =>
                      /\ procLog[n][2] \in DOMAIN Job.result.services
                      /\ Job.result.services[procLog[n][2]].kind = "report"

\* C8 case: Stack Overflow returned an Error value, GitHub then ran and
\* returned a report, and the job ended without being cancelled
C8_Witness ==
  /\ pc = "done" /\ ~aborted /\ Job.status = "completed"
  /\ \E n \in DOMAIN procLog : procLog[n] = <<"returnError", "stackOverflow">>
  /\ \E n \in DOMAIN procLog : procLog[n] = <<"return", "github">>
  /\ Len(Job.result.serviceErrors) = 1

\* C9: cancelJob signals the token, sets status 'cancelled' and returns true
\* exactly when the job exists and is 'running'; otherwise it returns false
\* and changes nothing of the job.
C9_CancelJobIffRunning ==
  [][cancelRet' # "none" =>
       IF JobExists /\ Job.status = "running"
       THEN /\ cancelRet' = "true"
            /\ jobs' = [jobs EXCEPT ![JobId].abortCount = @ + 1,
                                    ![JobId].status = "cancelled"]
       ELSE /\ cancelRet' = "false"
            /\ jobs' = jobs]_vars

\* C9 case: cancelJob was called on a job that had already ended and
\* returned false, the token not having been signalled
C9_Witness ==
  /\ cancelRet = "false" /\ JobExists
  /\ Job.status = "completed" /\ Job.abortCount = 0

\* C10: credential validation, when it applies, has finished successfully
\* before any reconciler starts; a reconciler starts only after the previous
\* one has returned; the reconcilers start in the order Stack Overflow,
\* Internal Stack Overflow, GitHub.
C10_ValidationThenSourcesInOrder ==
  LET Rank(s) == CASE s = "stackOverflow" -> 1
                   [] s = "internalStackOverflow" -> 2
                   [] OTHER -> 3
      IsStart(n) == procLog[n][1] = "start"
  IN /\ \A n \in DOMAIN procLog :
          IsStart(n) =>
            /\ run.validate => procLog[1] = <<"validated", "ok">>
            /\ n > 1 => procLog[n - 1][1] \in {"validated", "return", "returnError"}
            /\ \A k \in 1..(n - 1) :
                 IsStart(k) => Rank(procLog[k][2]) < Rank(procLog[n][2])
     /\ \A n \in DOMAIN procLog : procLog[n][1] = "validated" => n = 1
     /\ pc \in {"credRead", "validating"} => procLog = <<>>

\* C10 case: validation succeeded, then two reconcilers ran one after the other
C10_Witness ==
  /\ Len(procLog) >= 5
  /\ procLog[1] = <<"validated", "ok">>
  /\ procLog[2] = <<"start", "stackOverflow">>
  /\ procLog[4] = <<"start", "github">>

\* the three sections of the persisted snapshot
Sections == {"stackOverflow", "internalStackOverflow", "github"}

\* C11 as stated: no Custom.IssueID is both in a source's devOps list and in
\* its newIssues.issues list.
C11_DisjointById ==
  \A k \in Sections :
    \A a \in DOMAIN issuesDb[k].devOps :
      \A b \in DOMAIN issuesDb[k].newIssues.issues :
        issuesDb[k].devOps[a].issueId # issuesDb[k].newIssues.issues[b].id

\* C11 amended: no issue in a source's newIssues.issues has a devOps entry
\* with the same Custom.IssueID and an identical System.Title (an issue whose
\* work items all carry another title is in both lists by id).
C11_DisjointByIdAndTitle ==
  \A k \in Sections :
    \A b \in DOMAIN issuesDb[k].newIssues.issues :
      ~Exists(issuesDb[k].devOps, issuesDb[k].newIssues.issues[b])

\* C11 case: GitHub has returned with issue 1 both in devOps (under the work
\* item's title) and in newIssues (under the issue's title)
C11_Witness ==
  /\ pc = "returned" /\ svc.source = "github" /\ ret.kind = "report"
  /\ \E a \in DOMAIN issuesDb.github.devOps :
       \E b \in DOMAIN issuesDb.github.newIssues.issues :
         /\ issuesDb.github.devOps[a].issueId =
              issuesDb.github.newIssues.issues[b].id
         /\ issuesDb.github.devOps[a].title #
              issuesDb.github.newIssues.issues[b].title

\* C12: once a source's reconciler has returned, its snapshot section has
\* found.count = Len(found.issues) and newIssues.count = Len(newIssues.issues).
C12_CountsMatchLengths ==
  \A n \in DOMAIN procLog :
    procLog[n][1] \in {"return", "returnError"} =>
      LET sec == issuesDb[procLog[n][2]]
      IN /\ sec.found.count = Len(sec.found.issues)
         /\ sec.newIssues.count = Len(sec.newIssues.issues)

\* C13: if a job with push enabled completes with every create succeeding,
\* a second job run against the same unchanged upstream items and the
\* tracker state the first one left ends with newIssues.count = 0 for every
\* source and issues no create request.  The first job here reported no
\* service error at all, and the second one completed and found the same
\* items.
C13_RerunFindsNothingNew ==
  ( /\ first # <<>>
    /\ pc = "done" /\ Job.status = "completed"
    /\ first[1].pushToDevOps
    /\ first[1].serviceErrors = <<>>
    /\ \A s \in Sections : issuesDb[s].found = first[1].issues[s].found ) =>
    /\ \A s \in Sections : issuesDb[s].newIssues.count = 0
    /\ calls.create = 0

\* C14: a job cancelled after a source's fetch completed and before its
\* work-item lookups finished ends 'cancelled' with no serviceErrors entry.
C14_CancelDuringLookup ==
  (pc = "done" /\
   cancelAt \in {"searchPrep", "searching", "getPrep", "getting", "getConfig"})
  => /\ Job.status = "cancelled"
     /\ run.serviceErrors = <<>>
     /\ calls.create = 0

\* C15: every job whose status is 'completed' has a non-null result with an
\* endTime and the run snapshot (result.issues).
C15_CompletedHasSnapshot ==
  (JobExists /\ Job.status = "completed") =>
    /\ ~Job.result.isNull
    /\ Job.result.endTime
    /\ Job.result.hasIssues

\* out is items restricted to the first occurrence of each key, in order
FirstOccurrences(out, items, key) ==
  LET kept == {n \in 1..Len(items) :
                 \A m \in 1..(n - 1) : items[m][key] # items[n][key]}
  IN /\ Len(out) = Cardinality(kept)
     /\ \E at \in [1..Len(out) -> kept] :
          /\ \A a, b \in 1..Len(out) : a < b => at[a] < at[b]
          /\ \A a \in 1..Len(out) : out[a] = items[at[a]]
\* C16: deduplication (keyed by question_id for Q&A, by url for GitHub) keeps
\* exactly the first occurrence of each key in the original order, and
\* applying it to its own output, or to the input concatenated with itself,
\* gives the same sequence as applying it once.
C16_DedupKeepsFirstAndIsIdempotent ==
  /\ pc \in {"uniqueIssues", "twice", "doubled"} =>
       FirstOccurrences(svc.uniqueIssues, svc.items,
                        IF svc.source = "github" THEN "url" ELSE "question_id")
  /\ pc = "twice" => svc.twice = svc.uniqueIssues
  /\ pc = "doubled" => svc.doubled = svc.uniqueIssues
C16_Witness ==
  /\ pc = "doubled"
  /\ svc.source = "github"
  /\ svc.items = <<ItemA, EdgeC, EdgeA2>>
  /\ svc.doubled = <<ItemA, EdgeC>>

\* C17: progress.current never decreases and stays within 0..total; total,
\* once runQueryJob has set it, is the number of enabled sources and does
\* not change.
C17_ProgressMonotone ==
  [][JobExists' =>
       LET p == Job'.progress
       IN /\ 0 <= p.current /\ p.current <= p.total
          /\ JobExists => p.current >= Job.progress.current
          /\ run'.cursor >= 1 => p.total = Cardinality(run'.enabledServices)
          /\ run.cursor >= 1 => p.total = Job.progress.total]_vars

\* C17 case: two sources ran and the job ended with progress 2 of 2
C17_Witness ==
  /\ JobExists /\ pc = "done" /\ run.serviceIndex = 2
  /\ Job.progress = Progress(2, 2, "Done")

\* C18: a job's abort token is signalled at most once, and a cancel request
\* for a job whose token is already signalled changes nothing of the job.
C18_TokenSignalledOnce ==
  [][JobExists' =>
       /\ Job'.abortCount <= 1
       /\ (JobExists /\ Job.abortCount = 1 /\
           (cancelRet' # "none" \/ route' = "cancel")) => jobs' = jobs]_vars

\* C18 case: cancelJob was called again on a job it had already cancelled
C18_Witness ==
  /\ cancelRet = "false" /\ JobExists
  /\ Job.status = "cancelled" /\ Job.abortCount = 1

\* C19: POST /:jobId/cancel answers 404 for an unknown id and 400 for a job
\* that is not running, changing nothing, and success only for a running job,
\* which it cancels; GET /:jobId answers 404 for an unknown id.
C19_RouteAnswers ==
  [][/\ route' = "cancel" =>
          IF ~JobExists THEN httpStatus' = 404 /\ jobs' = jobs
          ELSE IF Job.status # "running" THEN httpStatus' = 400 /\ jobs' = jobs
          ELSE /\ httpStatus' = 200
               /\ Job'.status = "cancelled"
               /\ Job'.abortCount = Job.abortCount + 1
     /\ route' = "get" =>
          /\ httpStatus' = 404 <=> ~JobExists
          /\ jobs' = jobs]_vars

\* C19 case: the cancel route answered 400 for a job that had completed
C19_Witness ==
  /\ route = "cancel" /\ httpStatus = 400
  /\ JobExists /\ Job.status = "completed"

\* C20 as stated: after an exception other than the cancellation error the
\* job's status is 'error' and its error field is the exception's message.
C20_ErrorIsMessage ==
  (JobExists /\ run.thrown # NULL) =>
    /\ Job.status = "error"
    /\ Job.error = run.thrown

\* C20 amended: after an exception other than the cancellation error the job
\* has ended with status 'error' and its error field is the exception's
\* message, or 'Unknown error' when the message is empty; after the
\* cancellation error it has ended with status 'cancelled'.
C20_ErrorIsMessageOrUnknown ==
  /\ (JobExists /\ run.thrown # NULL) =>
       /\ pc = "done"
       /\ Job.status = "error"
       /\ Job.error = IF run.thrown = "" THEN "Unknown error" ELSE run.thrown
  /\ (procLog # <<>> /\ procLog[Len(procLog)][1] = "abort") =>
       /\ pc = "done"
       /\ Job.status = "cancelled"
       /\ Job.error = "Query was cancelled"

\* C20 case: a store operation threw an exception with an empty message
C20_Witness ==
  /\ JobExists /\ run.thrown = ""
  /\ Job.status = "error" /\ Job.error = "Unknown error"

\* C21: for every startHour in 0..23 supplied in the job parameters, the
\* query instant is the job-start local date minus numberOfDaysToQuery days
\* at exactly startHour:00:00.000 local time; startHour = 0 gives midnight.
C21_QueryInstantAtStartHour ==
  (pc = "queryDate" /\ run.queryParams.startHour # <<>>) =>
    /\ run.queryDate.hour = run.queryParams.startHour[1]
    /\ run.queryDate.minute = 0 /\ run.queryDate.second = 0
    /\ run.queryDate.ms = 0
    /\ run.queryDate.day =
         run.now.day - numberOfDays(run.queryParams, run.queryDefaults)

C23_SnapshotResetAtStart ==
  /\ [][(pc = "readSettings" /\ pc' # "done") =>
          (issuesDb' = issuesModel /\ procLog = <<>>)]_vars
  /\ [](( /\ first # <<>>
          /\ pc = "done" /\ Job.status = "completed" ) =>
         \A s \in Sections :
           /\ (\A n \in DOMAIN procLog : procLog[n] # <<"start", s>>) =>
                issuesDb[s] = EmptySection
           /\ (s \in DOMAIN run.services /\ run.services[s].kind = "report"
               /\ run.services[s].status = 204) =>
                /\ issuesDb[s].newIssues = EmptySection.newIssues
                /\ issuesDb[s].found.count = 0 =>
                     issuesDb[s] = EmptySection)
C23_Witness ==
  /\ first # <<>>
  /\ pc = "done" /\ Job.status = "completed"
  /\ first[1].issues.github.newIssues.count = 1
  /\ issuesDb.github.found.count = 1
  /\ issuesDb.github.newIssues.count = 0

C25_GitHubThrottleDoesNotFail ==
  (pc = "returned" /\ svc.source = "github" /\ ret.kind = "error") =>
    ret.message # "HTTP 429"

\* C26: a job reads the settings document once at its start, so a PATCH of
\* the settings that lands while the job runs changes no request or decision
\* of the job: a job that read useTestData = true issues no fetch request,
\* and one that read useTestData = false never takes the test items.
C26_SettingsReadOnce ==
  (JobExists /\ run.cursor >= 1) =>
    /\ run.useTestData => calls.fetch = 0
    /\ (~run.useTestData /\ IsQA(svc.source)) => svc.items = <<>>

\* C27: every outbound HTTP request made for a job (credential validation,
\* Q&A and GitHub fetch, work-item search, get-by-url and create) carries the
\* job's abort signal: a request in flight when the token is signalled
\* settles as canceled (validation reports it, a source returns it as its
\* error, a Q&A lookup skips the issue whose search was aborted).
C27_RequestsCarrySignal ==
  [][(aborted /\ pc' # pc) =>
       /\ pc = "validating" => run'.validation = "canceled"
       /\ pc \in {"fetching", "getting", "creating"} =>
            (pc' = "returned" /\ ret'.kind = "error"
             /\ ret'.message = "canceled")
       /\ pc = "searching" =>
            IF IsQA(svc.source)
            THEN \* the Error value has no status 200: the issue is skipped
                 pc' \in {"threw", "returned"} \/
                 (svc'.unassignedIssues = svc.unassignedIssues /\
                  svc'.workItems = <<>>)
            ELSE pc' = "returned" /\ ret'.kind = "error"
                 /\ ret'.message = "canceled"]_vars
C27_Witness ==
  /\ cancelAt = "creating" /\ pc = "returned"
  /\ ret.kind = "error" /\ ret.message = "canceled"

\* the name process hands to onProgress for the unit it is fetching
UnitName(s) ==
  IF IsQA(s.source) THEN s.units[s.unit] ELSE RepoNames[s.unit]

\* C28: each reconciler invokes onProgress once per upstream unit (per tag
\* for the Q&A sources, per repository for GitHub) with the unit's name, in
\* configuration order and before that unit's fetch request is issued: while
\* the request is in flight the job's progress names the unit.
C28_ProgressNamesUnitBeforeFetch ==
  (pc = "fetching" /\ ~run.useTestData) =>
    Job.progress.currentService =
      ServiceLabel(svc.source) \o "/" \o UnitName(svc)

\* the case of the claim an answer falls in, when it has one
AnswerClass(answer) ==
  CASE answer.kind = "httpError" /\ answer.status \in {401, 403, 404} ->
         ToString(answer.status)
    [] answer.kind = "httpError" -> "other status"
    [] answer.kind = "netError" /\
       answer.code \in {"ENOTFOUND", "ECONNREFUSED"} -> "connection"
    [] OTHER -> "none"

\* C29: validateCredentials never throws; it returns valid = true only for a
\* 200 response with a body; with org or PAT missing it returns valid = false
\* and sends no request; 401, 403, 404, a connection failure (ENOTFOUND,
\* ECONNREFUSED) and any other HTTP status each get an error message of
\* their own.
C29_ValidateCredentialsResults ==
  pc = "validated" =>
    LET c == run.credentials
        a == run.answer
        v == run.validation
    IN /\ v.valid \in BOOLEAN
       /\ v.valid => (a.kind = "response" /\ a.status = 200 /\ a.data)
       /\ v.valid => v.error = NULL
       /\ ~v.valid => v.error \notin {NULL, ""}
       /\ (c.org = "" \/ c.pat = "") => (~v.valid /\ calls.validate = 0)
       /\ (c.org # "" /\ c.pat # "" /\ AnswerClass(a) # "none") =>
            /\ ~v.valid
            /\ \A other \in Answers :
                 AnswerClass(other) \notin {"none", AnswerClass(a)} =>
                   DevOpsService_validateCredentials(c, other).error # v.error

C29_Witness ==
  /\ pc = "validated"
  /\ run.credentials = [org |-> "contoso", pat |-> "pat"]
  /\ run.answer = [kind |-> "httpError", status |-> 403]
  /\ run.validation.error = "PAT lacks required permissions"
  /\ calls.validate = 1

\* the issue has a LabeledEvent for the label that is later than lastRun
HasLabelSince(issue, label, lastRun) ==
  \E k \in DOMAIN issue.events :
    LabelMatches(issue.events[k], label) /\
    issue.events[k].createdAt > lastRun

\* C30: with a label query, filterIssuesByLabelCreationTime keeps an issue
\* if and only if its timeline has a LabeledEvent whose label name equals the
\* queried label case-insensitively and whose createdAt is strictly later
\* than the last-run instant; the other issues are dropped and the kept ones
\* are appended to the running result in input order.
C30_LabelFilterKeepsLabelledSince ==
  pc = "filtered" =>
    LET Since(issue) == HasLabelSince(issue, run.label, run.lastRun)
    IN run.result = run.before \o SelectSeq(run.issues, Since)

\* C31: the normalized title equals the upstream title when that has at most
\* 255 code points and is its first 255 code points otherwise; it is never
\* longer than 255 code points and always a prefix of the original.
C31_TitleTruncatedByCodePoints ==
  pc = "normalized" =>
    LET title == run.title
        normalized == run.normalized
    IN /\ Len(title) <= TitleLimit => normalized = title
       /\ Len(title) > TitleLimit =>
            normalized = SubSeq(title, 1, TitleLimit)
       /\ Len(normalized) <= TitleLimit
       /\ Len(normalized) <= Len(title)
       /\ normalized = SubSeq(title, 1, Len(normalized))

C33_NoSourceStartsAfterCancel ==
  [][(JobExists /\ \E n \in DOMAIN hist : hist[n] = "cancelled") =>
       ~(/\ Len(procLog') = Len(procLog) + 1
         /\ procLog'[Len(procLog')][1] = "start")]_vars
\* a job cancelled while its first source ran, whose process() returned and
\* whose second enabled source was then passed over
C33_Witness ==
  /\ pc = "finalize" /\ JobExists /\ Job.status = "cancelled"
  /\ Cardinality(run.enabledServices) >= 2
  /\ Cardinality({n \in DOMAIN procLog : procLog[n][1] = "start"}) = 1
  /\ \E n \in DOMAIN procLog : procLog[n][1] \in {"return", "returnError"}

\* the snapshot section the running reconciler writes
OwnSection == issuesDb[SnapshotKey(svc.source, svc.units)]

\* C34: within one reconciler run the sections of its source are written in
\* the order found, devOps, newIssues; found is persisted before the first
\* work-item lookup request is issued, and newIssues before the first create
\* request.
C34_SectionsWrittenInOrder ==
  [][/\ calls'.search > calls.search =>
          (OwnSection.found.issues = svc.issues /\
           OwnSection.found.count = Len(svc.issues))
     /\ (pc = "persistDevOps" /\ pc' # pc) =>
          OwnSection.found.issues = svc.issues
     /\ (pc = "persistNew" /\ pc' # pc) =>
          (OwnSection.found.issues = svc.issues /\
           (svc.matches # <<>> => OwnSection.devOps = svc.matches))
     /\ calls'.create > calls.create =>
          (OwnSection.newIssues.issues = svc.unassignedIssues /\
           OwnSection.newIssues.count = Len(svc.unassignedIssues))]_vars
\* a create request in flight in a run that wrote all three sections
C34_Witness ==
  /\ pc = "creating" /\ svc.matches # <<>>
  /\ OwnSection.found.issues = svc.issues
  /\ OwnSection.devOps = svc.matches
  /\ OwnSection.newIssues.issues = svc.unassignedIssues

\* C35: when two jobs run at the same time, each completed job's result
\* snapshot holds only the found, devOps and newIssues data of its own
\* reconcilers: the section of a source the job did not run is empty, and
\* the section of a source that reported its issues still holds them.
C35_ResultHoldsOwnDataOnly ==
  (pc = "done" /\ JobExists /\ Job.status = "completed" /\
   Job.result.hasIssues) =>
    \A s \in Sections :
      /\ (\A n \in DOMAIN procLog : procLog[n] # <<"start", s>>) =>
           Job.result.issues[s] = EmptySection
      /\ (s \in DOMAIN run.services /\ run.services[s].kind = "report" /\
          run.services[s].status = 200) =>
           Job.result.issues[s].newIssues.count > 0

\* C36: in the GitHub reconciler each found issue appears at most once in
\* newIssues.issues and at most one create request is issued for it per run,
\* whatever the mix of issues without a work item, with a title-matching one
\* and with a title-mismatched one.
C36_GitHubNewIssuesDistinct ==
  /\ LET new == issuesDb["github"].newIssues.issues
     IN \A m, n \in DOMAIN new : m # n => new[m].url # new[n].url
  /\ (pc = "creating" /\ svc.source = "github") =>
       \A m \in 1..(svc.i - 1) :
         svc.unassignedIssues[m].url # svc.unassignedIssues[svc.i].url

\* the issue is listed among the new ones
ListedNew(unassigned, issue) ==
  \E n \in DOMAIN unassigned :
    unassigned[n].id = issue.id /\ unassigned[n].title = issue.title

\* C37: whenever process() returns a report that is not an error, every
\* found issue has been classified as matched (a devOps entry with its id and
\* an identical title) or as new (listed in newIssues), also when its
\* work-item search returned an error value or a non-200 response.
C37_EveryFoundIssueClassified ==
  (pc = "returned" /\ ret.kind = "report") =>
    \A k \in DOMAIN svc.issues :
      Exists(svc.matches, svc.issues[k]) \/
      ListedNew(svc.unassignedIssues, svc.issues[k])

\* C38: for every configured tag list the Stack Overflow reconciler writes
\* only the stackOverflow section of the snapshot, the Internal Stack
\* Overflow reconciler only internalStackOverflow and the GitHub reconciler
\* only github: no reconciler changes another source's section.
C38_ReconcilerWritesOwnSection ==
  [][svc.source \in Sections =>
       \A s \in Sections \ {svc.source} : issuesDb'[s] = issuesDb[s]]_vars

\* the sources whose process() this job called
SourcesRun ==
  {s \in Sections : \E n \in DOMAIN procLog : procLog[n] = <<"start", s>>}

\* C39: when a job completes after running its sources, results.services
\* has an entry for every enabled source that ran, its report or an error
\* marker, also when the source failed because of an Azure DevOps error; and
\* every serviceErrors entry corresponds to a source that ran.
C39_EverySourceRunHasEntry ==
  (pc = "done" /\ JobExists /\ Job.status = "completed" /\
   Job.result.hasIssues) =>
    /\ \A s \in SourcesRun :
         /\ s \in DOMAIN Job.result.services
         /\ Job.result.services[s].kind \in {"report", "marker"}
    /\ \A n \in DOMAIN Job.result.serviceErrors :
         \E s \in SourcesRun :
           Job.result.serviceErrors[n].service = ServiceLabel(s)

\* C40: every started job eventually leaves 'running': runQueryJob ends and
\* the job is 'completed', 'cancelled' or 'error', provided every upstream
\* request and store operation eventually returns or fails, with and without
\* cancel requests at any point.
C40_JobEventuallyEnds ==
  JobExists ~>
    (pc = "done" /\ JobExists /\
     Job.status \in {"completed", "cancelled", "error"})
\* a job cancelled while a create request was in flight has ended
C40_Witness ==
  /\ pc = "done" /\ JobExists
  /\ cancelAt = "creating"
  /\ Job.status \in {"completed", "cancelled", "error"}

====
